---- MODULE Spec2Model ----
(***************************************************************************)
(* Model of the Fusion indexing engine: PropIndex, PrototypeIndex and the  *)
(* WorkspaceIndex orchestrator (per-file re-indexing transaction with its  *)
(* await points and the live-edit guard).                                  *)
(***************************************************************************)
EXTENDS Integers, Sequences, FiniteSets, TLC

VARIABLES
    prototypes,        \* PrototypeIndex.prototypes : name -> IndexedPrototype
    filePrototypes,    \* PrototypeIndex.filePrototypes : uri -> names
    byPrototype,       \* PropIndex.byPrototype : name -> list of IndexedProp
    fusionFiles,       \* WorkspaceIndex.fusionFiles
    filePrototypeMap,  \* WorkspaceIndex.filePrototypeMap : uri -> names
    filePropMap,       \* WorkspaceIndex.filePropMap : uri -> PropDefinition[]
    diagnostics,       \* WorkspaceIndex.diagnostics : uri -> Diagnostic[]
    calls,             \* in-flight indexFusionFile calls and where they wait
    initializing,      \* initialize(): 0 when it is not running, else the
                       \* position of its loop in fusionFiles
    hist,              \* what the completed calls did (observation only)
    q,                 \* the last lookup made by a reader and its answer
    documents,         \* what the scanners find in the text of every source
    reindexTimer,      \* extension.ts reindexTimer: the document of the last
                       \* setTimeout and whether that timeout is still pending
    textDocuments,     \* the editor's open documents: version, text, isDirty
    started            \* per document, the version of the text handed to the
                       \* last reindexDocument a handler started (observation only)

vars == <<prototypes, filePrototypes, byPrototype, fusionFiles,
          filePrototypeMap, filePropMap, diagnostics, calls, initializing, hist,
          q, documents,
          reindexTimer, textDocuments, started>>

\* JavaScript's undefined / null, where a string is expected
None == "undefined"

\* JavaScript's undefined, where an object is expected
Undefined == [undefined |-> TRUE]

\* The empty Map
EmptyMap == [x \in {} |-> None]

\* Map.get(k) ?? dflt
MapGet(m, k, dflt) == IF k \in DOMAIN m THEN m[k] ELSE dflt

\* Map.set(k, v)
MapSet(m, k, v) == [x \in DOMAIN m \cup {k} |-> IF x = k THEN v ELSE m[x]]

\* Map.delete(k)
MapDelete(m, k) == [x \in DOMAIN m \ {k} |-> m[x]]

(***************************************************************************)
(* PropIndex                                                               *)
(***************************************************************************)

\* pathsEqual comparing the lengths only
pathsEqual_LengthOnly(a, b) == Len(a) = Len(b)

\* pathsEqual(a, b)
pathsEqual(a, b) ==
    /\ Len(a) = Len(b)
    /\ \A i \in 1..Len(a) : a[i] = b[i]

\* isSuffix comparing the last elements only, without the length check
isSuffix_LastOnly(full, candidate) ==
    \/ Len(candidate) = 0
    \/ (Len(full) > 0 /\ full[Len(full)] = candidate[Len(candidate)])

\* isSuffix(full, candidate): candidate is compared from the last element backward
isSuffix(full, candidate) ==
    /\ Len(candidate) <= Len(full)
    /\ \A i \in 1..Len(candidate) :
          full[Len(full) - i + 1] = candidate[Len(candidate) - i + 1]

\* definitions.filter(d => d.prototypeName === prototypeName).map(d => ({...d, uri}))
NewProps(prototypeName, definitions, uri) ==
    LET kept == SelectSeq(definitions, LAMBDA d : d.prototypeName = prototypeName)
    IN  [i \in 1..Len(kept) |->
            [prototypeName |-> kept[i].prototypeName,
             propPath      |-> kept[i].propPath,
             start         |-> kept[i].start,
             end           |-> kept[i].end,
             source        |-> kept[i].source,
             uri           |-> uri]]

\* indexPrototype replacing the list instead of appending to it
PI_indexPrototype_Replace(bp, prototypeName, definitions, uri) ==
    MapSet(bp, prototypeName, NewProps(prototypeName, definitions, uri))

\* PropIndex.indexPrototype: the new value of byPrototype
PI_indexPrototype(bp, prototypeName, definitions, uri) ==
    LET existing == MapGet(bp, prototypeName, <<>>)
    IN  MapSet(bp, prototypeName, existing \o NewProps(prototypeName, definitions, uri))

\* the filter of removeByUri with the comparison inverted
NotOwnedBy_Inverted(props, uri) == SelectSeq(props, LAMBDA p : p.uri = uri)

\* props.filter(p => p.uri.toString() !== uriKey)
NotOwnedBy(props, uri) == SelectSeq(props, LAMBDA p : p.uri # uri)

\* removeByUri that removes nothing
PI_removeByUri_Keep(bp, uri) == bp

\* removeByUri that sets the filtered list also when it is empty
PI_removeByUri_KeepKeys(bp, uri) == [n \in DOMAIN bp |-> NotOwnedBy(bp[n], uri)]

\* PropIndex.removeByUri: the new value of byPrototype
PI_removeByUri(bp, uri) ==
    [n \in {m \in DOMAIN bp : NotOwnedBy(bp[m], uri) # <<>>} |-> NotOwnedBy(bp[n], uri)]

\* first loop of resolve: index of the first exact match, 0 when there is none
RECURSIVE ExactLoop(_, _, _)
ExactLoop(props, usagePath, i) ==
    IF i > Len(props) THEN 0
    ELSE IF pathsEqual(usagePath, props[i].propPath) THEN i
    ELSE ExactLoop(props, usagePath, i + 1)

\* the second loop of resolve with >= for >: the last of the longest wins
RECURSIVE SuffixLoop_LastWins(_, _, _, _, _)
SuffixLoop_LastWins(props, usagePath, i, bestMatch, bestLength) ==
    IF i > Len(props) THEN bestMatch
    ELSE IF isSuffix(usagePath, props[i].propPath) /\ Len(props[i].propPath) >= bestLength
         THEN SuffixLoop_LastWins(props, usagePath, i + 1, props[i],
                                  Len(props[i].propPath))
         ELSE SuffixLoop_LastWins(props, usagePath, i + 1, bestMatch, bestLength)

\* second loop of resolve: bestMatch after scanning props[i..]
RECURSIVE SuffixLoop(_, _, _, _, _)
SuffixLoop(props, usagePath, i, bestMatch, bestLength) ==
    IF i > Len(props) THEN bestMatch
    ELSE IF isSuffix(usagePath, props[i].propPath) /\ Len(props[i].propPath) > bestLength
         THEN SuffixLoop(props, usagePath, i + 1, props[i], Len(props[i].propPath))
         ELSE SuffixLoop(props, usagePath, i + 1, bestMatch, bestLength)

\* PropIndex.resolve
PI_resolve(bp, prototypeName, usagePath) ==
    LET props == MapGet(bp, prototypeName, <<>>)
        exact == ExactLoop(props, usagePath, 1)
    IN  IF props = <<>> THEN Undefined
        ELSE IF exact # 0 THEN props[exact]
        ELSE SuffixLoop(props, usagePath, 1, Undefined, 0)

\* Set.add on the insertion-ordered result set
SetAdd(result, x) ==
    IF \E k \in 1..Len(result) : result[k] = x THEN result ELSE Append(result, x)

\* the inner loop of getChildren never clearing matches
StartsWith_Unchecked(propPath, usagePath) == TRUE

\* the inner loop of getChildren: propPath starts with usagePath
StartsWith(propPath, usagePath) ==
    \A i \in 1..Len(usagePath) : propPath[i] = usagePath[i]

\* the loop of getChildren over props[i..]
RECURSIVE ChildrenLoop(_, _, _, _)
ChildrenLoop(props, usagePath, i, result) ==
    IF i > Len(props) THEN result
    ELSE IF Len(props[i].propPath) <= Len(usagePath)
         THEN ChildrenLoop(props, usagePath, i + 1, result)
    ELSE IF ~StartsWith(props[i].propPath, usagePath)
         THEN ChildrenLoop(props, usagePath, i + 1, result)
    ELSE ChildrenLoop(props, usagePath, i + 1,
                      SetAdd(result, props[i].propPath[Len(usagePath) + 1]))

\* PropIndex.getChildren: Array.from(result)
PI_getChildren(bp, prototypeName, usagePath) ==
    LET props == MapGet(bp, prototypeName, <<>>)
    IN  IF props = <<>> THEN <<>> ELSE ChildrenLoop(props, usagePath, 1, <<>>)

(***************************************************************************)
(* Texts.  A text is a sequence of characters; positions in a sequence     *)
(* count from 1, offsets of the program count from 0.                      *)
(***************************************************************************)

Lower == {"a", "b", "c", "d", "e", "f", "g", "h", "i", "j", "k", "l", "m",
          "n", "o", "p", "q", "r", "s", "t", "u", "v", "w", "x", "y", "z"}

Upper == {"A", "B", "C", "D", "E", "F", "G", "H", "I", "J", "K", "L", "M",
          "N", "O", "P", "Q", "R", "S", "T", "U", "V", "W", "X", "Y", "Z"}

Digit == {"0", "1", "2", "3", "4", "5", "6", "7", "8", "9"}

\* \s
IsSpace(ch) == ch \in {" ", "\t", "\n", "\r", "\f"}

\* [ \t]
IsBlank(ch) == ch \in {" ", "\t"}

\* [0-9]
IsDigit(ch) == ch \in Digit

\* [A-Za-z_]
IsIdentStart(ch) == ch \in Lower \cup Upper \cup {"_"}

\* [A-Za-z0-9_.]
IsIdentChar(ch) == ch \in Lower \cup Upper \cup Digit \cup {"_", "."}

\* [A-Za-z0-9_.:-]
IsNameChar(ch) == ch \in Lower \cup Upper \cup Digit \cup {"_", ".", ":", "-"}

\* [^\s={]
IsKeyChar(ch) == ~IsSpace(ch) /\ ch \notin {"=", "{"}

\* a greedy class*: the first position j >= i of s whose character is not in
\* the class P, Len(s) + 1 when all the rest is
Span(P(_), s, i) ==
    CHOOSE j \in i..(Len(s) + 1) :
        /\ \A k \in i..(j - 1) : P(s[k])
        /\ j <= Len(s) => ~P(s[j])

\* the word w stands in s at position i
StartsAt(s, i, w) ==
    /\ i + Len(w) - 1 <= Len(s)
    /\ \A k \in 1..Len(w) : s[i + k - 1] = w[k]

\* String.indexOf from position i on: the position of the first occurrence of
\* w, 0 when there is none
IndexFrom(s, w, i) ==
    LET at == {j \in i..Len(s) : StartsAt(s, j, w)}
    IN  IF at = {} THEN 0 ELSE CHOOSE j \in at : \A k \in at : j <= k

\* String.indexOf(w) + 1
IndexOf(s, w) == IndexFrom(s, w, 1)

\* the characters as one string
RECURSIVE Str(_)
Str(chars) == IF chars = <<>> THEN "" ELSE chars[1] \o Str(Tail(chars))

\* String.split(sep) for a one-character separator: the pieces between the
\* occurrences of sep
SplitOn(s, sep) ==
    LET breaks == {i \in 1..Len(s) : s[i] = sep}
        at(k)  == IF k = 0 THEN 0
                  ELSE IF k > Cardinality(breaks) THEN Len(s) + 1
                  ELSE CHOOSE i \in breaks : Cardinality({j \in breaks : j <= i}) = k
    IN  [k \in 1..(Cardinality(breaks) + 1) |-> SubSeq(s, at(k - 1) + 1, at(k) - 1)]

\* String.split('\n')
SplitLF(text) == SplitOn(text, "\n")

\* String.split(/\r?\n/): a '\r' before the '\n' belongs to the separator
SplitCRLF(text) ==
    LET pieces == SplitOn(text, "\n")
    IN  [k \in 1..Len(pieces) |->
            IF k < Len(pieces) /\ Len(pieces[k]) > 0 /\ pieces[k][Len(pieces[k])] = "\r"
            THEN SubSeq(pieces[k], 1, Len(pieces[k]) - 1)
            ELSE pieces[k]]

\* the path segments as strings
Segments(pieces) == [i \in 1..Len(pieces) |-> Str(pieces[i])]

Key(propPath, start, end) == [propPath |-> propPath, start |-> start, end |-> end]

(***************************************************************************)
(* Default Prop Scanner                                                    *)
(***************************************************************************)

\* line.match(/^[ \t]*([A-Za-z_][A-Za-z0-9_.]*|[0-9]+)\s*=/): whether it
\* matches, where the key starts and ends, and the length of the whole match
DefaultMatch(line) ==
    LET from == Span(IsBlank, line, 1)
        to   == IF from > Len(line) THEN from
                ELSE IF IsIdentStart(line[from]) THEN Span(IsIdentChar, line, from + 1)
                ELSE IF IsDigit(line[from]) THEN Span(IsDigit, line, from)
                ELSE from
        eq   == Span(IsSpace, line, to)
    IN  [ok     |-> to > from /\ eq <= Len(line) /\ line[eq] = "=",
         key    |-> SubSeq(line, from, to - 1),
         length |-> eq]

\* the braces of a line not counted
BraceDelta_None(line) == 0

\* for (const char of line) { if (char === '{') depth++; else if (char === '}') depth--; }
BraceDelta(line) ==
    Cardinality({i \in 1..Len(line) : line[i] = "{"})
      - Cardinality({i \in 1..Len(line) : line[i] = "}"})

\* the loop of parseDefaultProps over lines[k..]
RECURSIVE DefaultLoop(_, _, _, _, _)
DefaultLoop(lines, k, depth, currentOffset, bodyOffset) ==
    IF k > Len(lines) THEN <<>>
    ELSE LET line  == lines[k]
             match == DefaultMatch(line)
             start == bodyOffset + currentOffset + IndexOf(line, match.key) - 1
         IN  (IF match.ok /\ depth = 0
              THEN <<Key(Segments(SplitOn(match.key, ".")),
                         start, start + match.length)>>
              ELSE <<>>)
             \o DefaultLoop(lines, k + 1, depth + BraceDelta(line),
                            currentOffset + Len(line) + 1, bodyOffset)

\* parseDefaultProps(body, prototypeName, bodyOffset), the prototypeName left
\* to the caller
parseDefaultProps(body, bodyOffset) ==
    DefaultLoop(SplitCRLF(body), 1, 0, 0, bodyOffset)

(***************************************************************************)
(* Styleguide Tree Parser.  The tree is kept as the list of its nodes in   *)
(* the order they were created; a node is known by its path from the root  *)
(* (the props node, of path <<>>), which is unique among the nodes.        *)
(***************************************************************************)

\* the properties every object literal inherits from Object.prototype:
\* children[key] is truthy for them before any key was stored
InheritedKeys ==
    {"constructor", "toString", "toLocaleString", "valueOf", "hasOwnProperty",
     "isPrototypeOf", "propertyIsEnumerable", "__proto__", "__defineGetter__",
     "__defineSetter__", "__lookupGetter__", "__lookupSetter__"}

\* the loop that tracks the ${...} depth over line[i..]
RECURSIVE EelScan(_, _, _)
EelScan(line, i, eelDepth) ==
    IF i > Len(line) THEN eelDepth
    ELSE IF line[i] = "$" /\ i < Len(line) /\ line[i + 1] = "{"
         THEN EelScan(line, i + 2, eelDepth + 1)
    ELSE IF line[i] = "}" /\ eelDepth > 0
         THEN EelScan(line, i + 1, eelDepth - 1)
    ELSE EelScan(line, i + 1, eelDepth)

\* line.match(/^(\s*)props\s*\{/): whether it matches, and match[1].length
PropsMatch(line) ==
    LET from == Span(IsSpace, line, 1)
        word == <<"p", "r", "o", "p", "s">>
        to   == IF StartsAt(line, from, word)
                THEN Span(IsSpace, line, from + Len(word)) ELSE Len(line) + 1
    IN  [ok |-> to <= Len(line) /\ line[to] = "{", indent |-> from - 1]

\* /^\s*@/.test(line)
IsDirectiveLine(line) ==
    LET from == Span(IsSpace, line, 1) IN from <= Len(line) /\ line[from] = "@"

\* closeBlockRegex.test(line): /^\s*\}/
IsCloseLine(line) ==
    LET from == Span(IsSpace, line, 1) IN from <= Len(line) /\ line[from] = "}"

\* line.match(openBlockRegex): /^(\s*)([^\s={]+)\s*(?:=\s*[^{]+)?\s*\{/
\* after the key and spaces comes '{', or '=' and at least one character
\* before the first '{'
OpenMatch(line) ==
    LET from  == Span(IsSpace, line, 1)
        to    == Span(IsKeyChar, line, from)
        after == Span(IsSpace, line, to)
    IN  [ok     |-> /\ to > from
                    /\ after <= Len(line)
                    /\ \/ line[after] = "{"
                       \/ /\ line[after] = "="
                          /\ IndexFrom(line, <<"{">>, after + 1) > after + 1,
         indent |-> from - 1,
         key    |-> SubSeq(line, from, to - 1)]

\* .*\{ matches at position i : a '{' follows with no line terminator before it
BraceAhead(line, i) ==
    \E b \in i..Len(line) :
        /\ line[b] = "{"
        /\ \A k \in i..(b - 1) : line[k] \notin {"\n", "\r"}

\* line.match(/^(\s*)([^\s={]+)\s*=\s*(?!.*\{)/)
LeafMatch(line) ==
    LET from  == Span(IsSpace, line, 1)
        to    == Span(IsKeyChar, line, from)
        after == Span(IsSpace, line, to)
    IN  [ok  |-> /\ to > from
                 /\ after <= Len(line)
                 /\ line[after] = "="
                 /\ \E i \in (after + 1)..Span(IsSpace, line, after + 1) :
                       ~BraceAhead(line, i),
         key |-> SubSeq(line, from, to - 1)]

\* current.children[key] is truthy
HasChild(nodes, current, key) ==
    \/ Str(key) \in InheritedKeys
    \/ \E i \in 1..Len(nodes) : nodes[i].path = Append(current, Str(key))

Node(path, key, line, column) ==
    [path |-> path, key |-> key, line |-> line, column |-> column]

\* { message: `Duplicate prop "${key}" defined at the same level`, line, column }
Warning(key, line, column) ==
    [message |-> <<"D", "u", "p", "l", "i", "c", "a", "t", "e", " ", "p", "r", "o", "p", " ", "\"">>
                     \o key \o
                 <<"\"", " ", "d", "e", "f", "i", "n", "e", "d", " ", "a", "t", " ", "t", "h", "e", " ", "s", "a", "m", "e", " ", "l", "e", "v", "e", "l">>,
     line |-> line, column |-> column]

\* the state of parseStyleguidePropsTree before the first line; current is
\* <<>> for null and <<path>> for the node of that path
TreeStart ==
    [inStyleguide |-> FALSE, inProps |-> FALSE, position |-> [line |-> 0, column |-> 0],
     stack |-> <<>>, current |-> <<>>, eelDepth |-> 0, nodes |-> <<>>, warnings |-> <<>>]

\* a top that is the props node when the stack is empty
Top_Root(stack) == IF stack = <<>> THEN <<(<<>>)>> ELSE <<stack[Len(stack)]>>

\* stack[stack.length - 1] ?? null
Top(stack) == IF stack = <<>> THEN <<>> ELSE <<stack[Len(stack)]>>

\* the callback of lines.forEach applied to one line
TreeLine(st, line, lineNumber) ==
    LET eelDepth    == EelScan(line, 1, st.eelDepth)
        s0          == [st EXCEPT !.eelDepth = eelDepth]
        propsMatch  == PropsMatch(line)
        openMatch   == OpenMatch(line)
        leafMatch   == LeafMatch(line)
        popped      == SubSeq(st.stack, 1, Len(st.stack) - 1)
        current     == st.current[1]
    IN  IF ~st.inStyleguide /\ IndexOf(line, <<"@", "s", "t", "y", "l", "e", "g", "u", "i", "d", "e">>) # 0
        THEN [s0 EXCEPT !.inStyleguide = TRUE]
        ELSE IF st.inStyleguide /\ ~st.inProps
        THEN IF propsMatch.ok
             THEN [s0 EXCEPT !.inProps = TRUE,
                             !.position = [line |-> lineNumber,
                                           column |-> propsMatch.indent + 1],
                             !.current = <<(<<>>)>>,
                             !.stack = Append(st.stack, <<>>)]
             ELSE s0
        ELSE IF ~st.inProps \/ st.current = <<>>
        THEN s0
        ELSE IF eelDepth = 0 /\ IsCloseLine(line)
        THEN [s0 EXCEPT !.stack = popped, !.current = Top(popped)]
        ELSE IF ~IsDirectiveLine(line) /\ openMatch.ok
        THEN LET keyStart == IndexOf(line, openMatch.key) - 1
                 column   == IF keyStart >= 0 THEN keyStart + 1 ELSE openMatch.indent + 1
                 path     == Append(current, Str(openMatch.key))
             IN  IF HasChild(st.nodes, current, openMatch.key)
                 THEN [s0 EXCEPT !.warnings =
                          Append(st.warnings, Warning(openMatch.key, lineNumber, column))]
                 ELSE [s0 EXCEPT !.nodes =
                          Append(st.nodes, Node(path, openMatch.key, lineNumber, column)),
                                 !.stack = Append(st.stack, path),
                                 !.current = <<path>>]
        ELSE IF ~IsDirectiveLine(line) /\ leafMatch.ok
        THEN LET keyStart == IndexOf(line, leafMatch.key) - 1
                 column   == IF keyStart >= 0 THEN keyStart + 1 ELSE 1
                 path     == Append(current, Str(leafMatch.key))
             IN  IF HasChild(st.nodes, current, leafMatch.key)
                 THEN [s0 EXCEPT !.warnings =
                          Append(st.warnings, Warning(leafMatch.key, lineNumber, column))]
                 ELSE [s0 EXCEPT !.nodes =
                          Append(st.nodes, Node(path, leafMatch.key, lineNumber, column))]
        ELSE s0

\* lines.forEach over lines[k..]
RECURSIVE TreeLoop(_, _, _)
TreeLoop(st, lines, k) ==
    IF k > Len(lines) THEN st ELSE TreeLoop(TreeLine(st, lines[k], k), lines, k + 1)

\* parseStyleguidePropsTree(source): the state after the last line
parseStyleguidePropsTree(source) == TreeLoop(TreeStart, SplitLF(source), 1)

(***************************************************************************)
(* Styleguide Flattener                                                    *)
(***************************************************************************)

DigitValue(ch) == CHOOSE n \in 0..9 : <<"0", "1", "2", "3", "4", "5", "6", "7", "8", "9">>[n + 1] = ch

\* a < b for two numerals of the same length
LexLess(a, b) ==
    \E i \in 1..Len(a) :
        /\ DigitValue(a[i]) < DigitValue(b[i])
        /\ \A j \in 1..(i - 1) : a[j] = b[j]

\* a < b for two numerals without leading zeros
NumLess(a, b) == Len(a) < Len(b) \/ (Len(a) = Len(b) /\ LexLess(a, b))

\* the key is an array index (a canonical numeral below 2^32 - 1): Object.entries
\* lists such keys first, in ascending order
IsArrayIndex(key) ==
    /\ Len(key) > 0
    /\ \A i \in 1..Len(key) : IsDigit(key[i])
    /\ Len(key) = 1 \/ key[1] # "0"
    /\ NumLess(key, <<"4", "2", "9", "4", "9", "6", "7", "2", "9", "5">>)

\* entries that hold the first child only
Entries_First(nodes, path) ==
    LET kids == {i \in 1..Len(nodes) :
                    /\ Len(nodes[i].path) = Len(path) + 1
                    /\ SubSeq(nodes[i].path, 1, Len(path)) = path}
    IN  [k \in 1..(IF kids = {} THEN 0 ELSE 1) |->
            CHOOSE i \in kids : \A j \in kids : i <= j]

\* Object.entries(node.children): the positions in nodes of the children of the
\* node of that path, array indices first and ascending, then the other keys in
\* the order they were stored
Entries(nodes, path) ==
    LET kids == {i \in 1..Len(nodes) :
                    /\ Len(nodes[i].path) = Len(path) + 1
                    /\ SubSeq(nodes[i].path, 1, Len(path)) = path}
        before(i, j) ==
            IF IsArrayIndex(nodes[i].key)
            THEN ~IsArrayIndex(nodes[j].key) \/ NumLess(nodes[i].key, nodes[j].key)
            ELSE ~IsArrayIndex(nodes[j].key) /\ i < j
    IN  [k \in 1..Cardinality(kids) |->
            CHOOSE i \in kids : Cardinality({j \in kids : before(j, i)}) = k - 1]

\* lineOffsets of flattenStyleguideTree
RECURSIVE LineOffsets(_, _, _)
LineOffsets(lines, k, acc) ==
    IF k > Len(lines) THEN <<>>
    ELSE <<acc>> \o LineOffsets(lines, k + 1, acc + Len(lines[k]) + 1)

\* walk(child, [...path, key]) for the children entries[k..] of a node
RECURSIVE WalkEntries(_, _, _, _, _)
WalkEntries(nodes, lineOffsets, bodyOffset, entries, k) ==
    IF k > Len(entries) THEN <<>>
    ELSE LET node   == nodes[entries[k]]
             offset == bodyOffset + lineOffsets[node.line] + node.column - 1
         IN  <<Key(node.path, offset, offset + Len(node.key))>>
             \o WalkEntries(nodes, lineOffsets, bodyOffset, Entries(nodes, node.path), 1)
             \o WalkEntries(nodes, lineOffsets, bodyOffset, entries, k + 1)

\* flattenStyleguideTree(tree, prototypeName, document, bodyOffset), the
\* prototypeName left to the caller
flattenStyleguideTree(tree, document, bodyOffset) ==
    WalkEntries(tree.nodes, LineOffsets(SplitCRLF(document), 1, 0), bodyOffset,
                Entries(tree.nodes, <<>>), 1)

(***************************************************************************)
(* Prototype scanners                                                      *)
(***************************************************************************)

\* a declaration that ends before the closing parenthesis
Decl_Open(name, start, end) == [name |-> name, start |-> start, end |-> end - 1]

Decl(name, start, end) == [name |-> name, start |-> start, end |-> end]

\* /prototype\s*\(\s*([A-Za-z0-9_.:-]+)\s*\)/ matched at position i of text:
\* whether it matches, the name, and the position after the match
DeclMatch(text, i) ==
    LET word  == <<"p", "r", "o", "t", "o", "t", "y", "p", "e">>
        paren == IF StartsAt(text, i, word)
                 THEN Span(IsSpace, text, i + Len(word)) ELSE Len(text) + 1
        from  == IF paren <= Len(text) /\ text[paren] = "("
                 THEN Span(IsSpace, text, paren + 1) ELSE Len(text) + 1
        to    == Span(IsNameChar, text, from)
        close == Span(IsSpace, text, to)
    IN  [ok   |-> to > from /\ close <= Len(text) /\ text[close] = ")",
         name |-> SubSeq(text, from, to - 1),
         next |-> close + 1]

\* the loop of parsePrototypes: prototypeRegex.exec from position from on
RECURSIVE DeclLoop(_, _)
DeclLoop(text, from) ==
    LET at == IndexFrom(text, <<"p", "r", "o", "t", "o", "t", "y", "p", "e">>, from)
    IN  IF at = 0 THEN <<>>
        ELSE IF DeclMatch(text, at).ok
             THEN <<Decl(Str(DeclMatch(text, at).name), at - 1, DeclMatch(text, at).next - 1)>>
                  \o DeclLoop(text, DeclMatch(text, at).next)
             ELSE DeclLoop(text, at + 1)

\* the offset of the first '}' after the opening brace, whatever was opened
\* before it
findMatchingBrace_First(source, openBraceIndex) ==
    IndexFrom(source, <<"}">>, openBraceIndex + 2) - 1

\* findMatchingBrace(source, openBraceIndex): the offset of the first '}' from
\* the opening brace on at which the depth counted from there is back to 0,
\* or -1
findMatchingBrace(source, openBraceIndex) ==
    LET from     == openBraceIndex + 1
        depth(i) == Cardinality({k \in from..i : source[k] = "{"})
                      - Cardinality({k \in from..i : source[k] = "}"})
        closing  == {i \in from..Len(source) : source[i] = "}" /\ depth(i) = 0}
    IN  IF closing = {} THEN -1
        ELSE (CHOOSE i \in closing : \A j \in closing : i <= j) - 1

\* protoRegex matched at position i of text: the declaration, then either
\* spaces and '{', or spaces, '<' and everything up to the next '{'
BlockMatch(text, i) ==
    LET decl  == DeclMatch(text, i)
        after == Span(IsSpace, text, decl.next)
        brace == IF ~decl.ok \/ after > Len(text) THEN 0
                 ELSE IF text[after] = "{" THEN after
                 ELSE IF text[after] = "<" THEN IndexFrom(text, <<"{">>, after + 1)
                 ELSE 0
    IN  [ok |-> brace # 0, name |-> decl.name, next |-> brace + 1]

\* a loop body that keeps the block of a brace that is never closed
BlockOf_Unclosed(source, match) ==
    <<[name      |-> Str(match.name),
       bodyStart |-> match.next - 1,
       bodyEnd   |-> findMatchingBrace(source, match.next - 2)]>>

\* the body of parsePrototypeBlocks' loop for one match of protoRegex: the
\* block, unless its brace is never closed
BlockOf(source, match) ==
    LET bodyStart == match.next - 1
        bodyEnd   == findMatchingBrace(source, bodyStart - 1)
    IN  IF bodyEnd = -1 THEN <<>>
        ELSE <<[name      |-> Str(match.name),
                bodyStart |-> bodyStart,
                bodyEnd   |-> bodyEnd]>>

\* the loop of parsePrototypeBlocks: protoRegex.exec from position from on;
\* the match, tried where the word prototype stands next
RECURSIVE BlockLoop(_, _)
BlocksAt(source, at, match) ==
    IF match.ok THEN BlockOf(source, match) \o BlockLoop(source, match.next)
    ELSE BlockLoop(source, at + 1)

BlockLoop(source, from) ==
    LET at == IndexFrom(source, <<"p", "r", "o", "t", "o", "t", "y", "p", "e">>, from)
    IN  IF at = 0 THEN <<>> ELSE BlocksAt(source, at, BlockMatch(source, at))

\* parsePrototypeBlocks(source)
parsePrototypeBlocks(source) == BlockLoop(source, 1)

\* source.slice(start, end)
Slice(source, start, end) == SubSeq(source, start + 1, end)

\* the offsets at which the lines of the text start
LineStarts(text) ==
    LET breaks == {i \in 1..Len(text) : text[i] = "\n"}
    IN  <<0>> \o [k \in 1..Cardinality(breaks) |->
                    CHOOSE i \in breaks : Cardinality({j \in breaks : j <= i}) = k]

(***************************************************************************)
(* Documents.  A document is what the scanners find in its text: the       *)
(* prototype(...) occurrences, the offsets at which its lines start, and   *)
(* for every prototype block with a matching closing brace the flattened   *)
(* nodes of its @styleguide props tree, the duplicate-key warnings and the *)
(* default assignments.                                                    *)
(***************************************************************************)

\* what parsePropDefinitions takes from the body of one prototype block
\* before merging
ScanBody(name, body, bodyStart) ==
    LET styleguideTree == parseStyleguidePropsTree(body)
    IN  [name       |-> name,
         styleguide |-> flattenStyleguideTree(styleguideTree, body, bodyStart),
         warnings   |-> styleguideTree.warnings,
         defaults   |-> parseDefaultProps(body, bodyStart)]

ScanBlock(source, proto) ==
    ScanBody(proto.name, Slice(source, proto.bodyStart, proto.bodyEnd), proto.bodyStart)

ScanBlocks(source, protos) == [i \in 1..Len(protos) |-> ScanBlock(source, protos[i])]

ParsedDoc(text) ==
    [decls      |-> DeclLoop(text, 1),
     lineStarts |-> LineStarts(text),
     blocks     |-> ScanBlocks(text, parsePrototypeBlocks(text))]

Files == {"a.fusion", "b.fusion", "c.fusion"}

Names == {"N", "M"}

\*   prototype(N) {
\*     foo.bar = null
\*     baz = 1
\*   }
\*   
TextDefaults ==
    <<"p", "r", "o", "t", "o", "t", "y", "p", "e", "(", "N", ")", " ", "{",
      "\n", " ", " ", "f", "o", "o", ".", "b", "a", "r", " ", "=", " ", "n",
      "u", "l", "l", "\n", " ", " ", "b", "a", "z", " ", "=", " ", "1", "\n",
      "}", "\n">>

\*   prototype(N) < prototype(M) {
\*     @styleguide {
\*       props {
\*         bar {
\*           baz = 1
\*         }
\*         bar {
\*           baz = 2
\*         }
\*       }
\*     }
\*     baz = 0
\*   }
\*   
TextStyleguide ==
    <<"p", "r", "o", "t", "o", "t", "y", "p", "e", "(", "N", ")", " ", "<",
      " ", "p", "r", "o", "t", "o", "t", "y", "p", "e", "(", "M", ")", " ",
      "{", "\n", " ", " ", "@", "s", "t", "y", "l", "e", "g", "u", "i", "d",
      "e", " ", "{", "\n", " ", " ", " ", " ", "p", "r", "o", "p", "s", " ",
      "{", "\n", " ", " ", " ", " ", " ", " ", "b", "a", "r", " ", "{", "\n",
      " ", " ", " ", " ", " ", " ", " ", " ", "b", "a", "z", " ", "=", " ",
      "1", "\n", " ", " ", " ", " ", " ", " ", "}", "\n", " ", " ", " ", " ",
      " ", " ", "b", "a", "r", " ", "{", "\n", " ", " ", " ", " ", " ", " ",
      " ", " ", "b", "a", "z", " ", "=", " ", "2", "\n", " ", " ", " ", " ",
      " ", " ", "}", "\n", " ", " ", " ", " ", "}", "\n", " ", " ", "}",
      "\n", " ", " ", "b", "a", "z", " ", "=", " ", "0", "\n", "}", "\n">>

\*   prototype(M) {
\*     baz = 1
\*   
TextBroken ==
    <<"p", "r", "o", "t", "o", "t", "y", "p", "e", "(", "M", ")", " ", "{",
      "\n", " ", " ", "b", "a", "z", " ", "=", " ", "1", "\n">>

\*   prototype(M) < prototype(N) {
\*     baz = 1
\*   }
\*   prototype(N) {
\*     bar.baz = 2
\*   }
\*   
TextTwoBlocks ==
    <<"p", "r", "o", "t", "o", "t", "y", "p", "e", "(", "M", ")", " ", "<",
      " ", "p", "r", "o", "t", "o", "t", "y", "p", "e", "(", "N", ")", " ",
      "{", "\n", " ", " ", "b", "a", "z", " ", "=", " ", "1", "\n", "}",
      "\n", "p", "r", "o", "t", "o", "t", "y", "p", "e", "(", "N", ")", " ",
      "{", "\n", " ", " ", "b", "a", "r", ".", "b", "a", "z", " ", "=", " ",
      "2", "\n", "}", "\n">>

\*   prototype(Foo:Bar) {
\*     @styleguide {
\*       props {
\*         a {
\*           b = 1
\*         }
\*         a {
\*           b = 2
\*         }
\*       }
\*     }
\*   }
\*   
TextDupBlock ==
    <<"p", "r", "o", "t", "o", "t", "y", "p", "e", "(", "F", "o", "o",
      ":", "B", "a", "r", ")", " ", "{", "\n", " ", " ", "@", "s", "t",
      "y", "l", "e", "g", "u", "i", "d", "e", " ", "{", "\n", " ", " ",
      " ", " ", "p", "r", "o", "p", "s", " ", "{", "\n", " ", " ", " ",
      " ", " ", " ", "a", " ", "{", "\n", " ", " ", " ", " ", " ", " ",
      " ", " ", "b", " ", "=", " ", "1", "\n", " ", " ", " ", " ", " ",
      " ", "}", "\n", " ", " ", " ", " ", " ", " ", "a", " ", "{", "\n",
      " ", " ", " ", " ", " ", " ", " ", " ", "b", " ", "=", " ", "2",
      "\n", " ", " ", " ", " ", " ", " ", "}", "\n", " ", " ", " ", " ",
      "}", "\n", " ", " ", "}", "\n", "}", "\n">>

\*   prototype(Foo:Bar) { @styleguide { props { a { b = 1 } a { b = 2 } } } }
TextDupLine ==
    <<"p", "r", "o", "t", "o", "t", "y", "p", "e", "(", "F", "o", "o",
      ":", "B", "a", "r", ")", " ", "{", " ", "@", "s", "t", "y", "l",
      "e", "g", "u", "i", "d", "e", " ", "{", " ", "p", "r", "o", "p",
      "s", " ", "{", " ", "a", " ", "{", " ", "b", " ", "=", " ", "1",
      " ", "}", " ", "a", " ", "{", " ", "b", " ", "=", " ", "2", " ",
      "}", " ", "}", " ", "}", " ", "}">>

\*   prototype(N) {
\*     @styleguide {
\*       props {
\*         a = 1
\*         a = 2
\*       }
\*     }
\*   }
\*   prototype(M) {
\*     x.a = 0
\*   }
\*   
TextDupLeaf ==
    <<"p", "r", "o", "t", "o", "t", "y", "p", "e", "(", "N", ")", " ",
      "{", "\n", " ", " ", "@", "s", "t", "y", "l", "e", "g", "u", "i",
      "d", "e", " ", "{", "\n", " ", " ", " ", " ", "p", "r", "o", "p",
      "s", " ", "{", "\n", " ", " ", " ", " ", " ", " ", "a", " ", "=",
      " ", "1", "\n", " ", " ", " ", " ", " ", " ", "a", " ", "=", " ",
      "2", "\n", " ", " ", " ", " ", "}", "\n", " ", " ", "}", "\n", "}",
      "\n", "p", "r", "o", "t", "o", "t", "y", "p", "e", "(", "M", ")",
      " ", "{", "\n", " ", " ", "x", ".", "a", " ", "=", " ", "0", "\n",
      "}", "\n">>

Sources == {"defaults", "styleguide", "broken", "twoblocks"}

\* the sources in which a props block repeats a key
DuplicateSources == {"dupblock", "dupline", "dupleaf"}

TextOf(src) ==
    CASE src = "defaults"   -> TextDefaults
      [] src = "styleguide" -> TextStyleguide
      [] src = "broken"     -> TextBroken
      [] src = "twoblocks"  -> TextTwoBlocks
      [] src = "dupblock"   -> TextDupBlock
      [] src = "dupline"    -> TextDupLine
      [] src = "dupleaf"    -> TextDupLeaf

\* the document of a source
Doc(src) == documents[src]

(***************************************************************************)
(* Parsers                                                                 *)
(***************************************************************************)

\* parsePrototypes: one declaration per prototype(...) occurrence, in text order
parsePrototypes(src) == Doc(src).decls

\* propPath.join('.')
RECURSIVE Join(_)
Join(propPath) ==
    IF Len(propPath) = 0 THEN ""
    ELSE IF Len(propPath) = 1 THEN propPath[1]
    ELSE propPath[1] \o "." \o Join(Tail(propPath))

\* a scanner's results as PropDefinitions of one prototype
AsProps(keys, prototypeName, source) ==
    [i \in 1..Len(keys) |->
        [prototypeName |-> prototypeName,
         propPath      |-> keys[i].propPath,
         start         |-> keys[i].start,
         end           |-> keys[i].end,
         source        |-> source]]

\* the last segment of a path
LastSegment(propPath) == IF Len(propPath) = 0 THEN "" ELSE propPath[Len(propPath)]

\* a merge that drops the defaults sharing the last segment of a styleguide path
MergeBlock_BySuffix(block) ==
    LET styleguideProps == AsProps(block.styleguide, block.name, "styleguide")
        seen == {LastSegment(styleguideProps[i].propPath) : i \in 1..Len(styleguideProps)}
        defaults == SelectSeq(AsProps(block.defaults, block.name, "default"),
                              LAMBDA p : LastSegment(p.propPath) \notin seen)
    IN  styleguideProps \o defaults

\* the body of parsePropDefinitions' loop: the merged props of one block
MergeBlock(block) ==
    LET styleguideProps == AsProps(block.styleguide, block.name, "styleguide")
        seen == {Join(styleguideProps[i].propPath) : i \in 1..Len(styleguideProps)}
        defaults == SelectSeq(AsProps(block.defaults, block.name, "default"),
                              LAMBDA p : Join(p.propPath) \notin seen)
    IN  styleguideProps \o defaults

RECURSIVE MergeBlocks(_, _)
MergeBlocks(blocks, i) ==
    IF i > Len(blocks) THEN <<>>
    ELSE MergeBlock(blocks[i]) \o MergeBlocks(blocks, i + 1)

RECURSIVE BlockWarnings(_, _)
BlockWarnings(blocks, i) ==
    IF i > Len(blocks) THEN <<>>
    ELSE blocks[i].warnings \o BlockWarnings(blocks, i + 1)

\* parsePropDefinitions(source)
parsePropDefinitions(src) ==
    [props    |-> MergeBlocks(Doc(src).blocks, 1),
     warnings |-> BlockWarnings(Doc(src).blocks, 1)]

(***************************************************************************)
(* PrototypeIndex                                                          *)
(***************************************************************************)

\* offsetToPosition / TextDocument.positionAt: (line, character) of an offset
offsetToPosition(src, offset) ==
    LET starts == Doc(src).lineStarts
        line   == Cardinality({i \in 1..Len(starts) : starts[i] <= offset})
    IN  [line |-> line - 1, character |-> offset - starts[line]]

\* the loop of indexDocument over declarations[i..]
RECURSIVE IndexDecls(_, _, _, _, _)
IndexDecls(pr, uri, src, declarations, i) ==
    IF i > Len(declarations) THEN pr
    ELSE IndexDecls(
            MapSet(pr, declarations[i].name,
                   [name  |-> declarations[i].name,
                    uri   |-> uri,
                    range |-> <<offsetToPosition(src, declarations[i].start),
                                offsetToPosition(src, declarations[i].end)>>]),
            uri, src, declarations, i + 1)

\* PrototypeIndex.indexDocument: the new prototypes map
PX_indexDocument(pr, uri, src) == IndexDecls(pr, uri, src, parsePrototypes(src), 1)

\* PrototypeIndex.indexDocument: the names recorded for the file
DeclNames(src) ==
    LET declarations == parsePrototypes(src)
    IN  [i \in 1..Len(declarations) |-> declarations[i].name]

\* a removeByUri that deletes no name
PX_removeByUri_Keep(pr, fp, uri) == pr

\* PrototypeIndex.removeByUri: the new prototypes map
PX_removeByUri(pr, fp, uri) ==
    IF uri \notin DOMAIN fp THEN pr
    ELSE [n \in DOMAIN pr \ {fp[uri][i] : i \in 1..Len(fp[uri])} |-> pr[n]]

\* PrototypeIndex.get
PX_get(pr, name) == MapGet(pr, name, Undefined)

\* PrototypeIndex.getAllNames: the keys of the prototypes map
PX_getAllNames(pr) == DOMAIN pr

\* PrototypeIndex.getPrototypesFromDocument
PX_getPrototypesFromDocument(fp, uri) == MapGet(fp, uri, <<>>)


(***************************************************************************)
(* WorkspaceIndex                                                          *)
(***************************************************************************)

\* the definition a warning is attached to: among the definitions whose last
\* path segment is the warned key, sorted by start, the last one
MatchingDef(propDefinitions, warnedKey) ==
    LET matches == {i \in 1..Len(propDefinitions) :
                       propDefinitions[i].propPath[Len(propDefinitions[i].propPath)]
                           = warnedKey}
    IN  IF matches = {} THEN Undefined
        ELSE propDefinitions[
                CHOOSE i \in matches : \A j \in matches :
                    \/ propDefinitions[j].start < propDefinitions[i].start
                    \/ (propDefinitions[j].start = propDefinitions[i].start /\ j <= i)]

\* w.message.match(/"([^"]+)"/): the characters between the first '"' that is
\* followed by another character than '"' and the next '"'; null without them
WarnedKey(message) ==
    LET opens == {i \in 1..Len(message) :
                    /\ message[i] = "\""
                    /\ i < Len(message)
                    /\ message[i + 1] # "\""
                    /\ \E j \in (i + 2)..Len(message) : message[j] = "\""}
    IN  IF opens = {} THEN None
        ELSE LET i == CHOOSE o \in opens : \A x \in opens : o <= x
                 j == CHOOSE c \in (i + 2)..Len(message) :
                         /\ message[c] = "\""
                         /\ \A x \in (i + 2)..(c - 1) : message[x] # "\""
             IN  Str(SubSeq(message, i + 1, j - 1))

\* parsed.warnings.map(w => new vscode.Diagnostic(range, w.message, Warning))
\* (the document opened for positionAt holds the text that was indexed)
Diagnostic(src, propDefinitions, w) ==
    LET warnedKey   == WarnedKey(w.message)
        matchingDef == IF warnedKey # None
                       THEN MatchingDef(propDefinitions, warnedKey)
                       ELSE Undefined
    IN  [range    |-> IF matchingDef # Undefined
                      THEN <<offsetToPosition(src, matchingDef.start),
                             offsetToPosition(src, matchingDef.end)>>
                      ELSE <<[line |-> w.line - 1, character |-> w.column - 1],
                             [line |-> w.line - 1, character |-> w.column]>>,
         message  |-> w.message,
         severity |-> "Warning"]

FileDiagnostics(src) ==
    LET parsed == parsePropDefinitions(src)
    IN  [i \in 1..Len(parsed.warnings) |->
            Diagnostic(src, parsed.props, parsed.warnings[i])]

\* keys of the local byPrototype map, in insertion order
RECURSIVE GroupNames(_, _, _)
GroupNames(propDefinitions, i, names) ==
    IF i > Len(propDefinitions) THEN names
    ELSE GroupNames(propDefinitions, i + 1,
                    SetAdd(names, propDefinitions[i].prototypeName))

\* for (const [prototypeName, defs] of byPrototype) indexPrototype(prototypeName, defs, uri)
RECURSIVE InsertGroups(_, _, _, _, _)
InsertGroups(bp, propDefinitions, names, i, uri) ==
    IF i > Len(names) THEN bp
    ELSE InsertGroups(
            PI_indexPrototype(bp, names[i],
                SelectSeq(propDefinitions, LAMBDA d : d.prototypeName = names[i]), uri),
            propDefinitions, names, i + 1, uri)

\* allProps.push(...defs) for every group
RECURSIVE AllProps(_, _, _)
AllProps(propDefinitions, names, i) ==
    IF i > Len(names) THEN <<>>
    ELSE SelectSeq(propDefinitions, LAMBDA d : d.prototypeName = names[i])
            \o AllProps(propDefinitions, names, i + 1)

\* WorkspaceIndex.getDiagnostics
WI_getDiagnostics(dg, uri) == MapGet(dg, uri, <<>>)

\* Calls of indexFusionFile made one at a time: each begins when no other is
\* in flight (the handlers of the extension, further down, do not wait).
Calls == {"call"}

NoCall == [uri |-> None, src |-> None, live |-> FALSE, result |-> None]

IdleCall ==
    [pc |-> "idle", uri |-> None, src |-> None, live |-> FALSE,
     result |-> None, prev |-> NoCall, pre |-> Undefined]

AllIdle == \A c \in Calls : calls[c].pc = "idle"

\* what readers can see of the indexes; a file whose diagnostics were set to
\* the empty list shows the same as a file that never had any
Contents ==
    [prototypes  |-> prototypes,
     byPrototype |-> byPrototype,
     diagnostics |-> [f \in Files |-> MapGet(diagnostics, f, <<>>)]]

\* the call returns: the promise is settled with result
Return(c, uri, src, live, result, pre) ==
    /\ calls' = [calls EXCEPT ![c] =
                    [pc |-> "done", uri |-> uri, src |-> src, live |-> live,
                     result |-> result, prev |-> hist.last, pre |-> pre]]
    /\ hist' =
        [last     |-> [uri |-> uri, src |-> src, live |-> live, result |-> result],
         lastGood |-> [hist.lastGood EXCEPT ![uri] =
                          IF result = "ok" THEN src
                          ELSE IF result = "ioerror" THEN "failed" ELSE @],
         cur      |-> [hist.cur EXCEPT ![uri] = src],
         order    |-> IF src # None
                      THEN Append(SelectSeq(hist.order, LAMBDA f : f # uri), uri)
                      ELSE SelectSeq(hist.order, LAMBDA f : f # uri)]

\* a guard that does not look at the live flag
LiveGuard_NoFlag(live, propDefinitions) == Len(propDefinitions) = 0

\* the live-edit guard switched off
LiveGuard_Off(live, propDefinitions) == FALSE

\* options?.live && propDefinitions.length === 0
LiveGuard(live, propDefinitions) == live /\ Len(propDefinitions) = 0

\* lines 78-101: from the source text to the second openTextDocument
FromSource(c, uri, src, live, pr0, fp0, fpm0, pre) ==
    LET parsed == parsePropDefinitions(src)
        propDefinitions == parsed.props
    IN  /\ prototypes' = PX_indexDocument(pr0, uri, src)
        /\ filePrototypes' = MapSet(fp0, uri, DeclNames(src))
        /\ filePrototypeMap' = MapSet(fpm0, uri, DeclNames(src))
        /\ IF LiveGuard(live, propDefinitions)
           THEN /\ UNCHANGED <<byPrototype, filePropMap, diagnostics>>
                /\ Return(c, uri, src, live, "guard", pre)
           ELSE /\ IF uri \in DOMAIN filePropMap
                   THEN /\ byPrototype' = PI_removeByUri(byPrototype, uri)
                        /\ filePropMap' = MapDelete(filePropMap, uri)
                        /\ diagnostics' = MapDelete(diagnostics, uri)
                   ELSE UNCHANGED <<byPrototype, filePropMap, diagnostics>>
                /\ calls' = [calls EXCEPT ![c] =
                                [pc |-> "open2", uri |-> uri, src |-> src,
                                 live |-> live, result |-> None, prev |-> NoCall,
                                 pre |-> pre]]
                /\ UNCHANGED hist

\* indexFusionFile(uri, sourceOverride, {live}) is called: lines 64-70, and with a
\* sourceOverride on to the await of line 100; without one it awaits at line 75
IndexFusionFile(c, uri, sourceOverride, live) ==
    LET hasPrototypes == uri \in DOMAIN filePrototypeMap
        pr0  == IF hasPrototypes
                THEN PX_removeByUri(prototypes, filePrototypes, uri) ELSE prototypes
        fp0  == IF hasPrototypes THEN MapDelete(filePrototypes, uri) ELSE filePrototypes
        fpm0 == IF hasPrototypes THEN MapDelete(filePrototypeMap, uri) ELSE filePrototypeMap
    IN  /\ IF sourceOverride # None
           THEN FromSource(c, uri, sourceOverride, live, pr0, fp0, fpm0, Contents)
           ELSE /\ prototypes' = pr0
                /\ filePrototypes' = fp0
                /\ filePrototypeMap' = fpm0
                /\ calls' = [calls EXCEPT ![c] =
                                [pc |-> "open1", uri |-> uri, src |-> None,
                                 live |-> live, result |-> None, prev |-> NoCall,
                                 pre |-> Contents]]
                /\ UNCHANGED <<byPrototype, filePropMap, diagnostics, hist>>
        /\ UNCHANGED <<fusionFiles, initializing, q, documents>>

\* a caller that has no other call in flight calls indexFusionFile
Begin(c, uri, sourceOverride, live) ==
    /\ AllIdle
    /\ IndexFusionFile(c, uri, sourceOverride, live)
    /\ UNCHANGED <<reindexTimer, textDocuments, started>>

\* line 75: openTextDocument(uri) yields the document, whose text is src
Open1Done(c, src) ==
    /\ calls[c].pc = "open1"
    /\ FromSource(c, calls[c].uri, src, calls[c].live,
                  prototypes, filePrototypes, filePrototypeMap, calls[c].pre)
    /\ UNCHANGED <<fusionFiles, initializing, q, documents,
                   reindexTimer, textDocuments, started>>

\* lines 165-171: an openTextDocument(uri) rejects, the catch block returns false
OpenFail(c) ==
    /\ calls[c].pc \in {"open1", "open2"}
    /\ Return(c, calls[c].uri, calls[c].src, calls[c].live, "ioerror", calls[c].pre)
    /\ UNCHANGED <<prototypes, filePrototypes, byPrototype, fusionFiles,
                   filePrototypeMap, filePropMap, diagnostics, initializing,
                   q, documents,
                   reindexTimer, textDocuments, started>>

\* lines 103-164: diagnostics, insertion of the props, return true
Open2Done(c) ==
    LET uri == calls[c].uri
        propDefinitions == parsePropDefinitions(calls[c].src).props
        names == GroupNames(propDefinitions, 1, <<>>)
    IN  /\ calls[c].pc = "open2"
        /\ diagnostics' = MapSet(diagnostics, uri, FileDiagnostics(calls[c].src))
        /\ byPrototype' = InsertGroups(byPrototype, propDefinitions, names, 1, uri)
        /\ filePropMap' = MapSet(filePropMap, uri, AllProps(propDefinitions, names, 1))
        /\ Return(c, uri, calls[c].src, calls[c].live, "ok", calls[c].pre)
        /\ UNCHANGED <<prototypes, filePrototypes, fusionFiles, filePrototypeMap,
                       initializing, q, documents,
                       reindexTimer, textDocuments, started>>

\* the caller takes the result of the settled promise
Settle(c) ==
    /\ calls[c].pc = "done"
    /\ calls' = [calls EXCEPT ![c] = IdleCall]
    /\ UNCHANGED <<prototypes, filePrototypes, byPrototype, fusionFiles,
                   filePrototypeMap, filePropMap, diagnostics, initializing, hist,
                   q, documents,
                   reindexTimer, textDocuments, started>>

\* no setTimeout was made yet
NoTimer == [doc |-> None, pending |-> FALSE]

NoHist ==
    [last     |-> NoCall,
     lastGood |-> [f \in Files |-> None],
     cur      |-> [f \in Files |-> None],
     order    |-> <<>>]

\* WorkspaceIndex.clear() with PrototypeIndex.clear() and PropIndex.clear()
Clear ==
    /\ AllIdle
    /\ fusionFiles' = <<>>
    /\ prototypes' = EmptyMap
    /\ byPrototype' = EmptyMap
    /\ diagnostics' = EmptyMap
    /\ hist' = NoHist
    /\ UNCHANGED <<filePrototypes, filePrototypeMap, filePropMap, calls,
                   initializing, q, documents,
                   reindexTimer, textDocuments, started>>

Init ==
    /\ prototypes = EmptyMap
    /\ filePrototypes = EmptyMap
    /\ byPrototype = EmptyMap
    /\ fusionFiles = <<>>
    /\ filePrototypeMap = EmptyMap
    /\ filePropMap = EmptyMap
    /\ diagnostics = EmptyMap
    /\ calls = [c \in Calls |-> IdleCall]
    /\ initializing = 0
    /\ hist = NoHist
    /\ q = Undefined
    /\ documents = [src \in Sources \cup DuplicateSources |-> ParsedDoc(TextOf(src))]
    /\ reindexTimer = NoTimer
    /\ textDocuments = [d \in Files |-> [version |-> 1, text |-> "defaults", isDirty |-> FALSE]]
    /\ started = [d \in Files |-> 0]

\* the files edited and re-indexed in the full specification
EditedFiles == {"a.fusion", "b.fusion"}

Next ==
    \/ \E c \in Calls, uri \in EditedFiles, sourceOverride \in Sources \cup {None},
          live \in BOOLEAN : Begin(c, uri, sourceOverride, live)
    \/ \E c \in Calls, src \in Sources : Open1Done(c, src)
    \/ \E c \in Calls : OpenFail(c)
    \/ \E c \in Calls : Open2Done(c)
    \/ \E c \in Calls : Settle(c)
    \/ Clear

Spec == Init /\ [][Next]_vars

\* Three files re-indexed from the editor (reindexDocument without the live
\* flag), over the sources that differ in the prototype names they declare.
NameSources == {"defaults", "broken", "twoblocks"}

NextNames ==
    \/ \E c \in Calls, uri \in Files, sourceOverride \in NameSources :
          Begin(c, uri, sourceOverride, FALSE)
    \/ \E c \in Calls : Open2Done(c)
    \/ \E c \in Calls : Settle(c)

SpecNames == Init /\ [][NextNames]_vars

\* Two files indexed over the sources in which a props block repeats a key.
NextDuplicates ==
    \/ \E c \in Calls, uri \in EditedFiles, sourceOverride \in DuplicateSources \cup {None},
          live \in BOOLEAN : Begin(c, uri, sourceOverride, live)
    \/ \E c \in Calls, src \in DuplicateSources : Open1Done(c, src)
    \/ \E c \in Calls : OpenFail(c)
    \/ \E c \in Calls : Open2Done(c)
    \/ \E c \in Calls : Settle(c)

SpecDuplicates == Init /\ [][NextDuplicates]_vars

(***************************************************************************)
(* initialize() called again and again, the files on disk changing freely  *)
(* between the calls.                                                      *)
(***************************************************************************)

\* what findFiles may resolve with
Discoveries ==
    {<<>>, <<"a.fusion">>, <<"a.fusion", "b.fusion">>, <<"b.fusion", "a.fusion">>}

\* initialize(), lines 26-39: clear(), findFiles resolves with files
Initialize(files) ==
    /\ AllIdle
    /\ initializing = 0
    /\ fusionFiles' = files
    /\ prototypes' = EmptyMap
    /\ byPrototype' = EmptyMap
    /\ diagnostics' = EmptyMap
    /\ hist' = NoHist
    /\ initializing' = 1
    /\ UNCHANGED <<filePrototypes, filePrototypeMap, filePropMap, calls,
                   q, documents,
                   reindexTimer, textDocuments, started>>

\* initialize(), line 42: indexFusionFile(file) is called for the next file
InitIndex(c) ==
    /\ initializing \in 1..Len(fusionFiles)
    /\ Begin(c, fusionFiles[initializing], None, FALSE)

\* initialize(), line 42: the awaited call has settled, the loop goes on
InitSettle(c) ==
    /\ initializing > 0
    /\ calls[c].pc = "done"
    /\ calls' = [calls EXCEPT ![c] = IdleCall]
    /\ initializing' = initializing + 1
    /\ UNCHANGED <<prototypes, filePrototypes, byPrototype, fusionFiles,
                   filePrototypeMap, filePropMap, diagnostics, hist,
                   q, documents,
                   reindexTimer, textDocuments, started>>

\* initialize() has gone through fusionFiles
Initialized == AllIdle /\ initializing = Len(fusionFiles) + 1

\* initialize() returns
InitReturn ==
    /\ Initialized
    /\ initializing' = 0
    /\ UNCHANGED <<prototypes, filePrototypes, byPrototype, fusionFiles,
                   filePrototypeMap, filePropMap, diagnostics, calls, hist,
                   q, documents,
                   reindexTimer, textDocuments, started>>

NextInit ==
    \/ \E files \in Discoveries : Initialize(files)
    \/ \E c \in Calls : InitIndex(c)
    \/ \E c \in Calls, src \in Sources : Open1Done(c, src)
    \/ \E c \in Calls : OpenFail(c)
    \/ \E c \in Calls : Open2Done(c)
    \/ \E c \in Calls : InitSettle(c)
    \/ InitReturn

SpecInit == Init /\ [][NextInit]_vars


(***************************************************************************)
(* The PropIndex on its own: its operations called with arbitrary          *)
(* definitions, and readers calling resolve and getChildren.               *)
(***************************************************************************)

\* the longest list the PropIndex is driven to
MaxList == 3

DefPaths == {<<"baz">>, <<"bar">>, <<"bar", "baz">>, <<"foo", "bar", "baz">>}

UsagePaths ==
    DefPaths \cup {<<>>, <<"foo">>, <<"foo", "bar">>,
                 <<"props", "foo", "bar", "baz">>}

PropUris == {"a.fusion", "b.fusion"}

\* a PropDefinition as the parser builds it for a key of Len(propPath) segments
Def(prototypeName, propPath) ==
    [prototypeName |-> prototypeName,
     propPath      |-> propPath,
     start         |-> 10 * Len(propPath),
     end           |-> 10 * Len(propPath) + 3,
     source        |-> "default"]

Defs == {Def(n, p) : n \in Names, p \in DefPaths}

DefLists == {<<d>> : d \in Defs} \cup {<<d, e>> : d \in Defs, e \in Defs}

TotalProps(bp) ==
    LET present == DOMAIN bp
    IN  (IF "N" \in present THEN Len(bp["N"]) ELSE 0)
      + (IF "M" \in present THEN Len(bp["M"]) ELSE 0)

PropFrame ==
    UNCHANGED <<prototypes, filePrototypes, fusionFiles, filePrototypeMap,
                filePropMap, diagnostics, calls, initializing, hist, documents,
                reindexTimer, textDocuments, started>>

\* propIndex.indexPrototype(prototypeName, definitions, uri)
AddProps(prototypeName, definitions, uri) ==
    /\ q = Undefined
    /\ TotalProps(PI_indexPrototype(byPrototype, prototypeName, definitions, uri))
          <= MaxList
    /\ byPrototype' = PI_indexPrototype(byPrototype, prototypeName, definitions, uri)
    /\ q' = Undefined
    /\ PropFrame

\* propIndex.removeByUri(uri)
RemoveProps(uri) ==
    /\ q = Undefined
    /\ byPrototype' = PI_removeByUri(byPrototype, uri)
    /\ q' = Undefined
    /\ PropFrame

\* propIndex.clear()
ClearProps ==
    /\ q = Undefined
    /\ byPrototype' = EmptyMap
    /\ q' = Undefined
    /\ PropFrame

\* a reader calls propIndex.resolve(prototypeName, usagePath)
Resolve(prototypeName, usagePath) ==
    /\ q = Undefined
    /\ q' = [op |-> "resolve", prototypeName |-> prototypeName,
             usagePath |-> usagePath,
             result |-> PI_resolve(byPrototype, prototypeName, usagePath)]
    /\ UNCHANGED byPrototype
    /\ PropFrame

\* a reader calls propIndex.getChildren(prototypeName, usagePath)
GetChildren(prototypeName, usagePath) ==
    /\ q = Undefined
    /\ q' = [op |-> "getChildren", prototypeName |-> prototypeName,
             usagePath |-> usagePath,
             result |-> PI_getChildren(byPrototype, prototypeName, usagePath)]
    /\ UNCHANGED byPrototype
    /\ PropFrame

\* the reader has used the answer (lookups are synchronous: nothing runs
\* between a lookup and the use of its answer)
Answered ==
    /\ q # Undefined
    /\ q' = Undefined
    /\ UNCHANGED byPrototype
    /\ PropFrame

NextProp ==
    \/ Answered
    \/ \E n \in Names, defs \in DefLists, uri \in PropUris : AddProps(n, defs, uri)
    \/ \E uri \in PropUris : RemoveProps(uri)
    \/ ClearProps
    \/ \E n \in Names, p \in UsagePaths : Resolve(n, p)
    \/ \E n \in Names, p \in UsagePaths : GetChildren(n, p)

SpecProp == Init /\ [][NextProp]_vars

(***************************************************************************)
(* The updates of the PropIndex on their own, each leaving in q its        *)
(* arguments and the map it was applied to.                                *)
(***************************************************************************)

\* the longest list the updates are driven to
MaxOpsList == 3

OpPaths == {<<"baz">>, <<"bar", "baz">>}

OpDefs == {Def(n, p) : n \in Names, p \in OpPaths}

\* the definitions handed to indexPrototype: of one or of both prototypes
OpDefLists ==
    {<<>>} \cup {<<d>> : d \in OpDefs} \cup {<<d, e>> : d \in OpDefs, e \in OpDefs}

\* propIndex.indexPrototype(prototypeName, definitions, uri)
IndexPrototypeOp(prototypeName, definitions, uri) ==
    /\ q = Undefined
    /\ TotalProps(PI_indexPrototype(byPrototype, prototypeName, definitions, uri))
          <= MaxOpsList
    /\ byPrototype' = PI_indexPrototype(byPrototype, prototypeName, definitions, uri)
    /\ q' = [op |-> "indexPrototype", prototypeName |-> prototypeName,
             definitions |-> definitions, uri |-> uri, before |-> byPrototype]
    /\ PropFrame

\* propIndex.removeByUri(uri)
RemoveByUriOp(uri) ==
    /\ q = Undefined
    /\ byPrototype' = PI_removeByUri(byPrototype, uri)
    /\ q' = [op |-> "removeByUri", uri |-> uri, before |-> byPrototype]
    /\ PropFrame

NextOps ==
    \/ Answered
    \/ \E n \in Names, defs \in OpDefLists, uri \in PropUris :
          IndexPrototypeOp(n, defs, uri)
    \/ \E uri \in PropUris : RemoveByUriOp(uri)

SpecOps == Init /\ [][NextOps]_vars


(***************************************************************************)
(* The scanners on their own, applied to prototype bodies made of a few    *)
(* kinds of lines; each application leaves its input and result in q.      *)
(***************************************************************************)

\* the texts of n lines at most, each line one of lines
Texts(lines, n) ==
    LET JoinLines(seq) ==
            LET RECURSIVE from(_)
                from(k) == IF k > Len(seq) THEN <<>>
                           ELSE IF k = Len(seq) THEN seq[k]
                           ELSE seq[k] \o <<"\n">> \o from(k + 1)
            IN  from(1)
    IN  {JoinLines(seq) : seq \in UNION {[1..k -> lines] : k \in 0..n}}

\* the longest body handed to the Default Prop Scanner, in lines
MaxDefaultLines == 3

\* ' foo.bar = null ', 'a.b = 1', '  c = {', '}', 'x {', '7=1 }', '@s = 1'
DefaultLines ==
    {<<" ", "f", "o", "o", ".", "b", "a", "r", " ", "=", " ", "n", "u", "l", "l", " ">>,
     <<"a", ".", "b", " ", "=", " ", "1">>,
     <<" ", " ", "c", " ", "=", " ", "{">>,
     <<"}">>,
     <<"x", " ", "{">>,
     <<"7", "=", "1", " ", "}">>,
     <<"@", "s", " ", "=", " ", "1">>}

\* a PropDefinition[] as parseDefaultProps returns it for prototype X
ScanDefaults(body) ==
    /\ q = Undefined
    /\ q' = [op |-> "parseDefaultProps", body |-> body,
             result |-> AsProps(parseDefaultProps(body, 0), "X", "default")]
    /\ UNCHANGED byPrototype
    /\ PropFrame

\* the longest list of styleguide or of default definitions merged
MaxMerge == 2

\* styleguide keys may hold a '.', the segments of a default path never do
StyleguidePaths == {<<"baz">>, <<"foo">>, <<"foo", "baz">>, <<"foo.baz">>}

DefaultPaths == {<<"baz">>, <<"foo">>, <<"foo", "baz">>}

\* the lists of n definitions at most over the paths, at distinct offsets
KeyLists(paths, n, base) ==
    {[i \in 1..Len(f) |-> Key(f[i], base + 10 * i, base + 10 * i + 3)] :
        f \in UNION {[1..k -> paths] : k \in 0..n}}

\* one pass of parsePropDefinitions' loop over a block with the given
\* styleguide and default definitions
Merge(styleguide, defaults) ==
    /\ q = Undefined
    /\ q' = [op |-> "merge", styleguide |-> styleguide, defaults |-> defaults,
             result |-> MergeBlock([name |-> "X", styleguide |-> styleguide,
                                    warnings |-> <<>>, defaults |-> defaults])]
    /\ UNCHANGED byPrototype
    /\ PropFrame

\* the longest props block handed to the Styleguide Tree Parser, in lines
MaxStyleguideLines == 3

\* '  a = 1', '  a {', '  }', '  b = 2', '  b {'
StyleguideLines ==
    {<<" ", " ", "a", " ", "=", " ", "1">>,
     <<" ", " ", "a", " ", "{">>,
     <<" ", " ", "}">>,
     <<" ", " ", "b", " ", "=", " ", "2">>,
     <<" ", " ", "b", " ", "{">>}

\* the braces opened and not closed in the first n characters of the text
DepthAt(text, n) ==
    Cardinality({i \in 1..n : text[i] = "{"}) - Cardinality({i \in 1..n : text[i] = "}"})

\* n lines that close a brace
RECURSIVE Closers(_)
Closers(n) == IF n <= 0 THEN <<>> ELSE <<"\n", "}">> \o Closers(n - 1)

\* the bodies of a prototype block that hold a @styleguide block with a props
\* block of n lines at most, each brace closed in its place
StyleguideBodies(lines, n) ==
    LET header == <<"\n", "@", "s", "t", "y", "l", "e", "g", "u", "i", "d", "e", " ", "{", "\n", "p", "r", "o", "p", "s", " ", "{", "\n">>
    IN  {header \o inner \o Closers(DepthAt(inner, Len(inner)) + 2) :
            inner \in {t \in Texts(lines, n) : \A m \in 1..Len(t) : DepthAt(t, m) >= 0}}

ScanStyleguide(body) ==
    /\ q = Undefined
    /\ q' = [op |-> "parseStyleguidePropsTree", body |-> body,
             result |-> parseStyleguidePropsTree(body)]
    /\ UNCHANGED byPrototype
    /\ PropFrame

NextScan ==
    \/ Answered
    \/ \E body \in StyleguideBodies(StyleguideLines, MaxStyleguideLines) : ScanStyleguide(body)
    \/ \E styleguide \in KeyLists(StyleguidePaths, MaxMerge, 0),
          defaults \in KeyLists(DefaultPaths, MaxMerge, 100) : Merge(styleguide, defaults)
    \/ \E body \in Texts(DefaultLines, MaxDefaultLines) : ScanDefaults(body)

SpecScan == Init /\ [][NextScan]_vars

(***************************************************************************)
(* The parsers applied to whole texts, well formed or not, put together    *)
(* from a few fragments; each application leaves the text and what the     *)
(* parsers returned in q.                                                  *)
(***************************************************************************)

\* the longest text, in fragments
MaxFragments == 3

\* 'prototype(N) {', 'prototype( M ) < prototype(N) {', ' { a = 1 }', ' {', ' }',
\* ' a = 1', 'prototype('
Fragments ==
    {<<"p", "r", "o", "t", "o", "t", "y", "p", "e", "(", "N", ")", " ", "{">>,
     <<"p", "r", "o", "t", "o", "t", "y", "p", "e", "(", " ", "M", " ", ")", " ", "<", " ", "p", "r", "o", "t", "o", "t", "y", "p", "e", "(", "N", ")", " ", "{">>,
     <<" ", "{", " ", "a", " ", "=", " ", "1", " ", "}">>,
     <<" ", "{">>,
     <<" ", "}">>,
     <<" ", "a", " ", "=", " ", "1">>,
     <<"p", "r", "o", "t", "o", "t", "y", "p", "e", "(">>}

\* the fragments one after the other
RECURSIVE Concat(_)
Concat(seq) == IF seq = <<>> THEN <<>> ELSE Head(seq) \o Concat(Tail(seq))

FragmentTexts(fragments, n) ==
    {Concat(seq) : seq \in UNION {[1..k -> fragments] : k \in 0..n}}

\* what parsePrototypes(text) and parsePropDefinitions(text) return, with
\* the blocks parsePropDefinitions took from parsePrototypeBlocks
Parsed(text, protos, blocks) ==
    [op |-> "parse", text |-> text,
     declarations |-> DeclLoop(text, 1),
     blocks       |-> protos,
     props        |-> MergeBlocks(blocks, 1),
     warnings     |-> BlockWarnings(blocks, 1)]

ParsedWith(text, protos) == Parsed(text, protos, ScanBlocks(text, protos))

ParseText(text) ==
    /\ q = Undefined
    /\ q' = ParsedWith(text, parsePrototypeBlocks(text))
    /\ UNCHANGED byPrototype
    /\ PropFrame

NextParse ==
    \/ Answered
    \/ \E text \in FragmentTexts(Fragments, MaxFragments) : ParseText(text)

SpecParse == Init /\ [][NextParse]_vars

(***************************************************************************)
(* The Styleguide Tree Parser and the Flattener applied, as                *)
(* parsePropDefinitions applies them, to bodies whose props block is made  *)
(* of a few kinds of lines, closed or not, with LF or CRLF line endings;   *)
(* each application leaves the body, the tree and the definitions in q.    *)
(***************************************************************************)

\* the longest props block, in lines
MaxTreeLines == 4

\* 'a {', '  b = 2', ' }', '// ${${', 'props {'
TreeLines ==
    {<<"a", " ", "{">>,
     <<" ", " ", "b", " ", "=", " ", "2">>,
     <<" ", "}">>,
     <<"/", "/", " ", "$", "{", "$", "{">>,
     <<"p", "r", "o", "p", "s", " ", "{">>}

LineEndings == {<<"\n">>, <<"\r", "\n">>}

\* the lines of seq, each with the line ending eol behind it
RECURSIVE JoinWith(_, _)
JoinWith(seq, eol) ==
    IF seq = <<>> THEN <<>> ELSE Head(seq) \o eol \o JoinWith(Tail(seq), eol)

\* the bodies that open a @styleguide block and a props block and go on with
\* n lines at most
TreeBodies(lines, n) ==
    {JoinWith(<<<<"@", "s", "t", "y", "l", "e", "g", "u", "i", "d", "e", " ", "{">>,
                <<"p", "r", "o", "p", "s", " ", "{">>>> \o seq, eol) :
        seq \in UNION {[1..k -> lines] : k \in 0..n}, eol \in LineEndings}

\* proto.bodyStart of the block whose body is parsed
TreeBodyOffset == 5

Flattened(body, tree) ==
    [op |-> "flatten", body |-> body, tree |-> tree,
     result |-> AsProps(flattenStyleguideTree(tree, body, TreeBodyOffset),
                        "X", "styleguide")]

\* lines 387-397 of parsePropDefinitions for one body
ParseTree(body) ==
    /\ q = Undefined
    /\ q' = Flattened(body, parseStyleguidePropsTree(body))
    /\ UNCHANGED byPrototype
    /\ PropFrame

NextTree ==
    \/ Answered
    \/ \E body \in TreeBodies(TreeLines, MaxTreeLines) : ParseTree(body)

SpecTree == Init /\ [][NextTree]_vars

(***************************************************************************)
(* The handlers of the extension (extension.ts).  A change of a .fusion    *)
(* document replaces the one pending timeout by a new one; when the        *)
(* timeout fires, and when a document is saved, reindexDocument is called  *)
(* with the text the document has at that moment.  Nothing makes a handler *)
(* wait for a call that is in flight.                                      *)
(***************************************************************************)

\* the calls that may be in flight at the same time
Slots == {"first", "second"}

\* the documents open in the editor, and the texts they are changed to
OpenDocuments == {"a.fusion", "b.fusion"}

HandlerSources == {"defaults", "broken"}

\* the changes of one document: its version goes from 1 up to MaxVersion
MaxVersion == 2

\* the slot the next call takes: the first one that is free
Free(c) ==
    /\ calls[c].pc = "idle"
    /\ c = "second" => calls["first"].pc # "idle"

\* workspaceIndex.reindexDocument(doc.uri, doc.getText()) is called
ReindexDocument(c, doc) ==
    /\ Free(c)
    /\ IndexFusionFile(c, doc, textDocuments[doc].text, FALSE)
    /\ started' = [started EXCEPT ![doc] = textDocuments[doc].version]

\* onDidChangeTextDocument: clearTimeout(reindexTimer), and setTimeout for
\* this document
DidChange(doc, text) ==
    /\ textDocuments[doc].version < MaxVersion
    /\ textDocuments' = [textDocuments EXCEPT ![doc] =
                            [version |-> @.version + 1, text |-> text,
                             isDirty |-> TRUE]]
    /\ reindexTimer' = [doc |-> doc, pending |-> TRUE]
    /\ UNCHANGED <<prototypes, filePrototypes, byPrototype, fusionFiles,
                   filePrototypeMap, filePropMap, diagnostics, calls,
                   initializing, hist, q, documents, started>>

\* the pending timeout fires: its callback runs up to its await
TimerFire(c) ==
    /\ reindexTimer.pending
    /\ reindexTimer' = [reindexTimer EXCEPT !.pending = FALSE]
    /\ ReindexDocument(c, reindexTimer.doc)
    /\ UNCHANGED textDocuments

\* a changed document is saved; onDidSaveTextDocument: the async function
\* runs up to its await
DidSave(c, doc) ==
    /\ textDocuments[doc].isDirty
    /\ textDocuments' = [textDocuments EXCEPT ![doc].isDirty = FALSE]
    /\ ReindexDocument(c, doc)
    /\ UNCHANGED reindexTimer

InitExtension ==
    /\ prototypes = EmptyMap
    /\ filePrototypes = EmptyMap
    /\ byPrototype = EmptyMap
    /\ fusionFiles = <<>>
    /\ filePrototypeMap = EmptyMap
    /\ filePropMap = EmptyMap
    /\ diagnostics = EmptyMap
    /\ calls = [c \in Slots |-> IdleCall]
    /\ initializing = 0
    /\ hist = NoHist
    /\ q = Undefined
    /\ documents = [src \in Sources \cup DuplicateSources |-> ParsedDoc(TextOf(src))]
    /\ reindexTimer = NoTimer
    /\ textDocuments = [d \in Files |-> [version |-> 1, text |-> "defaults", isDirty |-> FALSE]]
    /\ started = [d \in Files |-> 0]

NextExtension ==
    \/ \E doc \in OpenDocuments, text \in HandlerSources : DidChange(doc, text)
    \/ \E c \in Slots : TimerFire(c)
    \/ \E c \in Slots, doc \in OpenDocuments : DidSave(c, doc)
    \/ \E c \in Slots : Open2Done(c)
    \/ \E c \in Slots : OpenFail(c)
    \/ \E c \in Slots : Settle(c)

SpecExtension == InitExtension /\ [][NextExtension]_vars

\* timeouts fire, awaited promises settle and continuations run; nothing
\* obliges the user to change or save a document
SpecDebounce ==
    /\ SpecExtension
    /\ WF_vars(\E c \in Slots : TimerFire(c))
    /\ WF_vars(\E c \in Slots : Open2Done(c) \/ OpenFail(c))
    /\ WF_vars(\E c \in Slots : Settle(c))

(***************************************************************************)
(* Properties of the lookups                                               *)
(***************************************************************************)

\* the list a lookup of prototypeName scans
ListOf(prototypeName) == MapGet(byPrototype, prototypeName, <<>>)

\* candidate is a suffix of full
IsSuffixOf(candidate, full) ==
    /\ Len(candidate) <= Len(full)
    /\ SubSeq(full, Len(full) - Len(candidate) + 1, Len(full)) = candidate

\* prefix is a strict prefix of path
IsStrictPrefixOf(prefix, path) ==
    /\ Len(prefix) < Len(path)
    /\ SubSeq(path, 1, Len(prefix)) = prefix

\* positions of the entries of props whose propPath is usagePath
ExactAt(props, usagePath) == {i \in 1..Len(props) : props[i].propPath = usagePath}

\* positions of the entries of props whose propPath is a suffix of usagePath
SuffixAt(props, usagePath) ==
    {i \in 1..Len(props) : IsSuffixOf(props[i].propPath, usagePath)}

Least(S) == CHOOSE i \in S : \A j \in S : i <= j

\* C7: resolve is reflexive: when the list of P holds an entry whose propPath is
\* p, resolve(P, p) returns the first such entry of the list.
C7_ResolveReflexive ==
    (q # Undefined /\ q.op = "resolve")
        => LET props == ListOf(q.prototypeName)
               exact == ExactAt(props, q.usagePath)
           IN  exact # {} => /\ q.result = props[Least(exact)]
                             /\ q.result.propPath = q.usagePath

\* a resolve answered by the first of two exact matches, which is not the head
\* of the list
C7_Witness ==
    /\ q # Undefined
    /\ q.op = "resolve"
    /\ Cardinality(ExactAt(ListOf(q.prototypeName), q.usagePath)) >= 2
    /\ Least(ExactAt(ListOf(q.prototypeName), q.usagePath)) > 1
    /\ q.result.propPath = q.usagePath

\* C8: without an exact match resolve returns, of the entries whose propPath is
\* a suffix of usagePath, the first of those with the longest propPath, and
\* undefined iff there is no such entry.
C8_LongestSuffix ==
    (q # Undefined /\ q.op = "resolve")
        => LET props == ListOf(q.prototypeName)
               suffix == SuffixAt(props, q.usagePath)
               longest == {i \in suffix : \A j \in suffix :
                              Len(props[j].propPath) <= Len(props[i].propPath)}
           IN  ExactAt(props, q.usagePath) = {}
                  => /\ (q.result = Undefined) <=> (suffix = {})
                     /\ suffix # {} => q.result = props[Least(longest)]

\* usage ['props','foo','bar','baz'] against a list that holds ['baz'] before
\* ['bar','baz'], and ['bar','baz'] twice: the first ['bar','baz'] is returned
C8_Witness ==
    /\ q # Undefined
    /\ q.op = "resolve"
    /\ q.usagePath = <<"props", "foo", "bar", "baz">>
    /\ LET props == ListOf(q.prototypeName)
       IN  /\ Len(props) = 3
           /\ props[1].propPath = <<"baz">>
           /\ props[2].propPath = <<"bar", "baz">>
           /\ props[3].propPath = <<"bar", "baz">>
           /\ props[2] # props[3]
           /\ q.result = props[2]

\* C9: an entry returned by resolve(P, usagePath) is in the list of P, its
\* propPath is no longer than usagePath and is a suffix of usagePath.
C9_ResolveWithinUsage ==
    (q # Undefined /\ q.op = "resolve" /\ q.result # Undefined)
        => /\ \E i \in 1..Len(ListOf(q.prototypeName)) :
                 ListOf(q.prototypeName)[i] = q.result
           /\ Len(q.result.propPath) <= Len(q.usagePath)
           /\ IsSuffixOf(q.result.propPath, q.usagePath)

\* a resolve answered by a shorter suffix while a longer entry with the same
\* last segment is in the list
C9_Witness ==
    /\ q # Undefined
    /\ q.op = "resolve"
    /\ q.result # Undefined
    /\ Len(q.result.propPath) < Len(q.usagePath)
    /\ \E i \in 1..Len(ListOf(q.prototypeName)) :
          /\ Len(ListOf(q.prototypeName)[i].propPath) > Len(q.usagePath)
          /\ ListOf(q.prototypeName)[i].propPath[Len(ListOf(q.prototypeName)[i].propPath)]
                = q.usagePath[Len(q.usagePath)]

\* the next segments after usagePath in the entries that extend it
ChildSet(props, usagePath) ==
    {props[i].propPath[Len(usagePath) + 1] :
        i \in {j \in 1..Len(props) : IsStrictPrefixOf(usagePath, props[j].propPath)}}

\* C10: getChildren(P, p) returns exactly the segments that follow p in the
\* entries of P having p as a strict prefix, each once.
C10_ChildrenExact ==
    (q # Undefined /\ q.op = "getChildren")
        => /\ {q.result[i] : i \in 1..Len(q.result)}
                 = ChildSet(ListOf(q.prototypeName), q.usagePath)
           /\ \A i, j \in 1..Len(q.result) : q.result[i] = q.result[j] => i = j

\* getChildren(P, ['bar']) answered ['baz'] from two entries ['bar','baz'], while
\* ['foo','bar','baz'] (where 'bar' is not at the front) contributes nothing
C10_Witness ==
    /\ q # Undefined
    /\ q.op = "getChildren"
    /\ q.usagePath = <<"bar">>
    /\ q.result = <<"baz">>
    /\ LET props == ListOf(q.prototypeName)
       IN  /\ Len(props) = 3
           /\ Cardinality({i \in 1..3 : props[i].propPath = <<"bar", "baz">>}) = 2
           /\ \E i \in 1..3 : props[i].propPath = <<"foo", "bar", "baz">>


(***************************************************************************)
(* Properties of the re-indexing transaction                               *)
(***************************************************************************)

\* the entries of the list props that file uri owns
OwnedIn(props, uri) == SelectSeq(props, LAMBDA p : p.uri = uri)

\* per prototype, the entries that file uri owns in the Prop Index bp
OwnedProps(bp, uri) == [n \in Names |-> OwnedIn(MapGet(bp, n, <<>>), uri)]

\* the entries of the Prototype Index pr that point into file uri
OwnedPrototypes(pr, uri) == [n \in {m \in DOMAIN pr : pr[m].uri = uri} |-> pr[n]]

\* what the indexes hold for file uri
FileView(contents, uri) ==
    [prototypes  |-> OwnedPrototypes(contents.prototypes, uri),
     props       |-> OwnedProps(contents.byPrototype, uri),
     diagnostics |-> MapGet(contents.diagnostics, uri, <<>>)]

HasProps(bp, uri) == \E n \in Names : OwnedIn(MapGet(bp, n, <<>>), uri) # <<>>

\* C1: a live-edit indexFile whose text yields no prop definition returns false
\* and leaves the Prop Index and the diagnostics as they were before the call.
C1_LiveEditGuard ==
    \A c \in Calls :
        (/\ calls[c].pc = "done"
         /\ calls[c].live
         /\ calls[c].src # None
         /\ Len(parsePropDefinitions(calls[c].src).props) = 0)
            => /\ calls[c].result # "ok"
               /\ byPrototype = calls[c].pre.byPrototype
               /\ Contents.diagnostics = calls[c].pre.diagnostics

\* the guard held back a broken text for a file that has props and a diagnostic
C1_Witness ==
    \E c \in Calls :
        /\ calls[c].pc = "done"
        /\ calls[c].live
        /\ calls[c].src = "broken"
        /\ calls[c].result = "guard"
        /\ HasProps(byPrototype, calls[c].uri)
        /\ MapGet(diagnostics, calls[c].uri, <<>>) # <<>>

\* C2: when opening the document fails, indexFile returns false and the file's
\* Prototype Index entries, Prop Index entries and diagnostics are what they
\* were before the call.
C2_UnreadableKeepsState ==
    \A c \in Calls :
        (calls[c].pc = "done" /\ calls[c].result = "ioerror")
            => FileView(Contents, calls[c].uri) = FileView(calls[c].pre, calls[c].uri)

\* C3: at an await point of a transaction for file f a reader never finds the
\* old entries of f removed while the new ones are not inserted yet.
C3_ReaderAtomicity ==
    \A c \in Calls :
        /\ (calls[c].pc = "open1" /\ ~calls[c].live)
              => (OwnedPrototypes(calls[c].pre.prototypes, calls[c].uri) # EmptyMap
                     => OwnedPrototypes(prototypes, calls[c].uri) # EmptyMap)
        /\ (calls[c].pc = "open2" /\ Len(parsePropDefinitions(calls[c].src).props) > 0)
              => (HasProps(calls[c].pre.byPrototype, calls[c].uri)
                     => \E n \in Names : \E p \in UsagePaths :
                           /\ PI_resolve(byPrototype, n, p) # Undefined
                           /\ PI_resolve(byPrototype, n, p).uri = calls[c].uri)

\* how often entry e occurs in the lists of the Prop Index bp
CountIn(bp, e) ==
    LET props == MapGet(bp, e.prototypeName, <<>>)
    IN  Cardinality({i \in 1..Len(props) : props[i] = e})

\* how often definition d occurs among the definitions defs
CountOf(defs, d) == Cardinality({i \in 1..Len(defs) : defs[i] = d})

\* the prop definitions of the source last applied for a file
GoodProps(src) == IF src = None THEN <<>> ELSE parsePropDefinitions(src).props

WithUri(d, uri) ==
    [prototypeName |-> d.prototypeName, propPath |-> d.propPath, start |-> d.start,
     end |-> d.end, source |-> d.source, uri |-> uri]

WithoutUri(e) ==
    [prototypeName |-> e.prototypeName, propPath |-> e.propPath, start |-> e.start,
     end |-> e.end, source |-> e.source]

\* C4: between calls, the entries a file owns in the Prop Index are, as a
\* multiset, the prop definitions of the source of its most recent indexFile
\* that the live-edit guard did not abort (none after clear); files whose last
\* call failed on I/O are left out.
C4_PerFileReplacement ==
    (\A c \in Calls : calls[c].pc \in {"idle", "done"})
        => \A f \in Files : hist.lastGood[f] # "failed"
              => LET good == GoodProps(hist.lastGood[f])
                 IN  /\ \A i \in 1..Len(good) :
                           CountIn(byPrototype, WithUri(good[i], f)) = CountOf(good, good[i])
                     /\ \A n \in DOMAIN byPrototype : \A i \in 1..Len(byPrototype[n]) :
                           byPrototype[n][i].uri = f
                              => CountOf(good, WithoutUri(byPrototype[n][i])) = 1

\* file a was indexed with twoblocks after other sources, a later live edit
\* with the broken text was held back, and b owns entries of the same prototype
C4_Witness ==
    /\ AllIdle
    /\ hist.lastGood["a.fusion"] = "twoblocks"
    /\ hist.cur["a.fusion"] = "broken"
    /\ hist.lastGood["b.fusion"] = "defaults"
    /\ Len(OwnedIn(MapGet(byPrototype, "N", <<>>), "a.fusion")) = 1
    /\ MapGet(byPrototype, "N", <<>>)[1].uri = "a.fusion"
    /\ Len(OwnedIn(MapGet(byPrototype, "N", <<>>), "b.fusion")) = 2

\* the call c has returned, and it indexed the same file with the same source
\* as the call completed just before it (nothing in between), neither failing
Again(c) ==
    /\ calls[c].pc = "done"
    /\ calls[c].result # "ioerror"
    /\ calls[c].prev.result # "ioerror"
    /\ calls[c].prev.uri = calls[c].uri
    /\ calls[c].prev.src = calls[c].src

Holders(name) ==
    {f \in Files : /\ hist.cur[f] # None
                   /\ \E i \in 1..Len(DeclNames(hist.cur[f])) :
                         DeclNames(hist.cur[f])[i] = name}

\* of the files of S, the one indexed last
LastIndexed(S) ==
    LET at(f) == CHOOSE i \in 1..Len(hist.order) : hist.order[i] = f
    IN  CHOOSE f \in S : \A g \in S : at(g) <= at(f)

\* the last occurrence of prototype(name) in the text src
LastDecl(src, name) ==
    LET declarations == Doc(src).decls
        at == {i \in 1..Len(declarations) : declarations[i].name = name}
    IN  declarations[CHOOSE i \in at : \A j \in at : j <= i]

\* C6: last write wins: when two files declare prototype(N), get(N) points
\* into the one indexed last; and get(N) points at the last occurrence of
\* prototype(N) in the text of the file it points into.
C6_LastWriteWins ==
    (\A c \in Calls : calls[c].pc \in {"idle", "done"})
        => \A n \in Names :
              /\ \A a \in Holders(n) : \A b \in Holders(n) \ {a} :
                    b = LastIndexed(Holders(n))
                       => /\ PX_get(prototypes, n) # Undefined
                          /\ PX_get(prototypes, n).uri = b
              /\ (/\ PX_get(prototypes, n) # Undefined
                  /\ PX_get(prototypes, n).uri \in Holders(n))
                    => LET src == hist.cur[PX_get(prototypes, n).uri]
                           d   == LastDecl(src, n)
                       IN  PX_get(prototypes, n).range =
                              <<offsetToPosition(src, d.start),
                                offsetToPosition(src, d.end)>>


(***************************************************************************)
(* Properties of the updates of the PropIndex                              *)
(***************************************************************************)

\* the positions of defs whose definition belongs to prototypeName
OfPrototype(defs, prototypeName) ==
    {i \in 1..Len(defs) : defs[i].prototypeName = prototypeName}

\* the position in defs of the k-th element of the set of positions S
Kth(S, k) == CHOOSE i \in S : Cardinality({j \in S : j <= i}) = k

\* C11: indexPrototype(P, defs, f) only appends: the list of P before the call
\* is a prefix of the list after it, the rest is the definitions of defs that
\* belong to P, in order and tagged with f, and no other list changes.
C11_IndexPrototypeAppends ==
    (q # Undefined /\ q.op = "indexPrototype")
        => LET old   == MapGet(q.before, q.prototypeName, <<>>)
               added == OfPrototype(q.definitions, q.prototypeName)
           IN  /\ q.prototypeName \in DOMAIN byPrototype
               /\ LET new == byPrototype[q.prototypeName]
                  IN  /\ Len(new) = Len(old) + Cardinality(added)
                      /\ \A i \in 1..Len(old) : new[i] = old[i]
                      /\ \A k \in 1..Cardinality(added) :
                            new[Len(old) + k]
                               = WithUri(q.definitions[Kth(added, k)], q.uri)
               /\ \A n \in Names \ {q.prototypeName} :
                     /\ (n \in DOMAIN byPrototype) <=> (n \in DOMAIN q.before)
                     /\ MapGet(byPrototype, n, <<>>) = MapGet(q.before, n, <<>>)

\* indexPrototype was called again with the arguments of the call before it
\* (one definition of P, one of another prototype): the entry is there twice
C11_Witness ==
    /\ q # Undefined
    /\ q.op = "indexPrototype"
    /\ Len(q.definitions) = 2
    /\ Cardinality(OfPrototype(q.definitions, q.prototypeName)) = 1
    /\ LET new == byPrototype[q.prototypeName]
       IN  /\ Len(new) = 2
           /\ new[1] = new[2]
           /\ Len(MapGet(q.before, q.prototypeName, <<>>)) = 1

\* the positions of props whose entry is not owned by uri
Foreign(props, uri) == {i \in 1..Len(props) : props[i].uri # uri}

\* C12: after removeByUri(f) no list holds an entry of f, the entries of the
\* other files are all there in the order they had, and a prototype has a list
\* iff an entry of another file remains for it.
C12_RemoveByUriExact ==
    (q # Undefined /\ q.op = "removeByUri")
        => /\ \A n \in DOMAIN byPrototype : \A i \in 1..Len(byPrototype[n]) :
                 byPrototype[n][i].uri # q.uri
           /\ \A n \in DOMAIN q.before :
                 LET old  == q.before[n]
                     new  == MapGet(byPrototype, n, <<>>)
                     kept == Foreign(old, q.uri)
                 IN  /\ Len(new) = Cardinality(kept)
                     /\ \A i \in kept :
                           new[Cardinality({j \in kept : j <= i})] = old[i]
           /\ \A n \in Names :
                 (n \in DOMAIN byPrototype)
                    <=> (n \in DOMAIN q.before /\ Foreign(q.before[n], q.uri) # {})

\* removeByUri(f) took f's entry from between two entries of the other file
\* and deleted the key of a prototype whose list held no entry of another file
C12_Witness ==
    /\ q # Undefined
    /\ q.op = "removeByUri"
    /\ \E n \in DOMAIN q.before :
          /\ Len(q.before[n]) = 3
          /\ q.before[n][2].uri = q.uri
          /\ n \in DOMAIN byPrototype
          /\ byPrototype[n] = <<q.before[n][1], q.before[n][3]>>
          /\ byPrototype[n][1] # byPrototype[n][2]
    /\ \E n \in DOMAIN q.before : n \notin DOMAIN byPrototype


(***************************************************************************)
(* Properties of clear and initialize                                      *)
(***************************************************************************)

\* every operation the Prototype Index exposes answers as an empty index does,
\* except the per-file name list
NoPrototypes ==
    /\ \A n \in Names : PX_get(prototypes, n) = Undefined
    /\ PX_getAllNames(prototypes) = {}

\* the per-file name list is empty for every file
NoFileNames ==
    \A f \in Files : PX_getPrototypesFromDocument(filePrototypes, f) = <<>>

\* every lookup of the Prop Index answers as an empty index does
NoProps ==
    \A n \in Names : \A p \in UsagePaths :
        /\ PI_resolve(byPrototype, n, p) = Undefined
        /\ PI_getChildren(byPrototype, n, p) = <<>>

NoDiagnostics == \A f \in Files : WI_getDiagnostics(diagnostics, f) = <<>>

\* C13: after clear() the tracked-file list is empty and every operation of
\* both indexes and getDiagnostics answer as on empty indexes.
C13_ClearEmptiesAll ==
    [][Clear => (/\ fusionFiles = <<>>
                 /\ NoPrototypes
                 /\ NoFileNames
                 /\ NoProps
                 /\ NoDiagnostics)']_vars


\* what a new WorkspaceIndex holds after indexFusionFile of files[1..i], file f
\* being read as text[f]: nothing is there to remove, every file is inserted
RECURSIVE FreshIndex(_, _, _)
FreshIndex(files, text, i) ==
    IF i = 0
    THEN [prototypes  |-> EmptyMap,
          byPrototype |-> EmptyMap,
          diagnostics |-> [f \in Files |-> <<>>]]
    ELSE LET c    == FreshIndex(files, text, i - 1)
             f    == files[i]
             defs == parsePropDefinitions(text[f]).props
         IN  [prototypes  |-> PX_indexDocument(c.prototypes, f, text[f]),
              byPrototype |-> InsertGroups(c.byPrototype, defs,
                                           GroupNames(defs, 1, <<>>), 1, f),
              diagnostics |-> [c.diagnostics EXCEPT ![f] = FileDiagnostics(text[f])]]

\* C14: when initialize() has gone through the files (all of them readable),
\* the indexes and diagnostics are those a new instance builds from the same
\* files read in the same order, however often initialize() ran before.
C14_InitializeFromEmpty ==
    (/\ Initialized
     /\ \A i \in 1..Len(fusionFiles) : hist.lastGood[fusionFiles[i]] = hist.cur[fusionFiles[i]]
     /\ \A i \in 1..Len(fusionFiles) : hist.cur[fusionFiles[i]] # None)
        => Contents = FreshIndex(fusionFiles, hist.cur, Len(fusionFiles))


(***************************************************************************)
(* Properties of the prop sources                                          *)
(***************************************************************************)

\* C16: styleguide definitions override defaults: when the Prop Index holds a
\* styleguide entry of P with propPath p, resolve(P, p) does not return a
\* default entry.
C16_StyleguideOverrides ==
    \A n \in Names : \A i \in 1..Len(ListOf(n)) :
        ListOf(n)[i].source = "styleguide"
            => PI_resolve(byPrototype, n, ListOf(n)[i].propPath).source # "default"


(***************************************************************************)
(* Properties of the scanners                                              *)
(***************************************************************************)

\* the lines of the body that have the key-assignment shape and start at
\* brace depth 0
TopAssignments(body) ==
    {k \in 1..Len(SplitCRLF(body)) :
        /\ DefaultMatch(SplitCRLF(body)[k]).ok
        /\ DepthAt(body, LineStarts(body)[k]) = 0}

\* the key has exactly the segments of path, none of which holds a '.'
SplitsInto(key, path) ==
    /\ Len(path) = Cardinality({i \in 1..Len(key) : key[i] = "."}) + 1
    /\ Join(path) = Str(key)

\* C20: parseDefaultProps returns one default definition for every line of the
\* body that has the key-assignment shape and starts at brace depth 0, in the
\* order of the lines, its propPath being the key split on '.', and nothing for
\* the other lines.
C20_DefaultScanner ==
    (q # Undefined /\ q.op = "parseDefaultProps")
        => LET lines == SplitCRLF(q.body)
               top   == TopAssignments(q.body)
           IN  /\ Len(q.result) = Cardinality(top)
               /\ \A i \in 1..Len(q.result) :
                     LET k == CHOOSE l \in top : Cardinality({j \in top : j <= l}) = i
                     IN  /\ SplitsInto(DefaultMatch(lines[k]).key, q.result[i].propPath)
                         /\ q.result[i].source = "default"
                         /\ q.result[i].prototypeName = "X"
                         /\ q.result[i].start >= LineStarts(q.body)[k]
                         /\ q.result[i].start < LineStarts(q.body)[k] + Len(lines[k])

\* a body whose first line opens a brace with an assignment, whose second line
\* is an assignment at depth 1 and closes the brace, and whose third line is
\* the body of 'prototype(X) { foo.bar = null }': the first and the third line
\* are found, ['foo','bar'] with source default
C20_Witness ==
    /\ q # Undefined
    /\ q.op = "parseDefaultProps"
    /\ Len(SplitCRLF(q.body)) = 3
    /\ DefaultMatch(SplitCRLF(q.body)[2]).ok
    /\ TopAssignments(q.body) = {1, 3}
    /\ Len(q.result) = 2
    /\ q.result[2].propPath = <<"foo", "bar">>
    /\ q.result[2].source = "default"

\* the defaults of the merged block whose dotted path no styleguide definition
\* of the block has
Surviving(styleguide, defaults) ==
    {j \in 1..Len(defaults) :
        \A i \in 1..Len(styleguide) :
            Join(styleguide[i].propPath) # Join(defaults[j].propPath)}

\* C15: the merge of one block returns the styleguide definitions in their
\* order, followed by the default definitions in their order whose dotted path
\* equals the dotted path of no styleguide definition of the block.
C15_MergePolicy ==
    (q # Undefined /\ q.op = "merge")
        => LET styleguide == AsProps(q.styleguide, "X", "styleguide")
               defaults   == AsProps(q.defaults, "X", "default")
               kept       == Surviving(q.styleguide, q.defaults)
           IN  /\ Len(q.result) = Len(styleguide) + Cardinality(kept)
               /\ \A i \in 1..Len(styleguide) : q.result[i] = styleguide[i]
               /\ \A r \in 1..Cardinality(kept) :
                     q.result[Len(styleguide) + r] =
                         defaults[CHOOSE j \in kept : Cardinality({l \in kept : l <= j}) = r]

\* a block with the styleguide definition foo.baz and the defaults baz and
\* foo.baz: the default baz is kept beside the styleguide foo.baz, the default
\* foo.baz is dropped
C15_Witness ==
    /\ q # Undefined
    /\ q.op = "merge"
    /\ Len(q.styleguide) = 1
    /\ q.styleguide[1].propPath = <<"foo", "baz">>
    /\ Len(q.defaults) = 2
    /\ q.defaults[1].propPath = <<"baz">>
    /\ q.defaults[2].propPath = <<"foo", "baz">>
    /\ Len(q.result) = 2
    /\ q.result[1].source = "styleguide"
    /\ q.result[2].propPath = <<"baz">>
    /\ q.result[2].source = "default"

\* the line of the body that opens the props block
PropsLine(lines) ==
    LET at == {k \in 1..Len(lines) :
                 IndexOf(lines[k], <<"@", "s", "t", "y", "l", "e", "g", "u", "i", "d", "e">>) # 0}
        first == CHOOSE k \in at : \A l \in at : k <= l
        props == {k \in (first + 1)..Len(lines) : PropsMatch(lines[k]).ok}
    IN  CHOOSE k \in props : \A l \in props : k <= l

\* what a line inside the props block is: the closing of a block, the opening
\* of a block under a key, a leaf assignment to a key
ClosesBlock(line) == IsCloseLine(line)

OpensBlock(line) == ~ClosesBlock(line) /\ ~IsDirectiveLine(line) /\ OpenMatch(line).ok

AssignsLeaf(line) ==
    ~ClosesBlock(line) /\ ~OpensBlock(line) /\ ~IsDirectiveLine(line) /\ LeafMatch(line).ok

KeyOf(line) == IF OpensBlock(line) THEN OpenMatch(line).key ELSE LeafMatch(line).key

\* the blocks opened and not closed between the props line and line k
LevelOf(lines, k) ==
    Cardinality({j \in (PropsLine(lines) + 1)..(k - 1) : OpensBlock(lines[j])})
        - Cardinality({j \in (PropsLine(lines) + 1)..(k - 1) : ClosesBlock(lines[j])})

\* the lines of the props block that hold a key
Occurrences(lines) ==
    {k \in (PropsLine(lines) + 1)..Len(lines) :
        LevelOf(lines, k) >= 0 /\ (OpensBlock(lines[k]) \/ AssignsLeaf(lines[k]))}

\* the line that opened the block in which line k stands
Enclosing(lines, k) ==
    IF LevelOf(lines, k) = 0 THEN PropsLine(lines)
    ELSE LET openers == {j \in (PropsLine(lines) + 1)..(k - 1) :
                            OpensBlock(lines[j]) /\ LevelOf(lines, j) = LevelOf(lines, k) - 1}
         IN  CHOOSE j \in openers : \A l \in openers : l <= j

\* the occurrences of a key that an earlier line of the same block holds too
Repeated(lines) ==
    {k \in Occurrences(lines) :
        \E j \in Occurrences(lines) :
            /\ j < k
            /\ Enclosing(lines, j) = Enclosing(lines, k)
            /\ KeyOf(lines[j]) = KeyOf(lines[k])}

\* the keys of the blocks around line k, outermost first, and its own key
RECURSIVE PathTo(_, _)
PathTo(lines, k) ==
    IF k = PropsLine(lines) THEN <<>>
    ELSE Append(PathTo(lines, Enclosing(lines, k)), Str(KeyOf(lines[k])))

\* C17: the warnings of parseStyleguidePropsTree are, in line order, one for
\* every occurrence of a key that an earlier line of the same block holds too
\* (N - 1 for a key that occurs N times), at the line of that occurrence and the
\* column of its key, and the first occurrence of every key is a node of the
\* tree.
C17_DuplicateWarnings ==
    (q # Undefined /\ q.op = "parseStyleguidePropsTree")
        => LET lines    == SplitLF(q.body)
               repeated == Repeated(lines)
               warnings == q.result.warnings
           IN  /\ Len(warnings) = Cardinality(repeated)
               /\ \A i \in 1..Len(warnings) :
                     LET k == CHOOSE l \in repeated : Cardinality({j \in repeated : j <= l}) = i
                     IN  warnings[i] = Warning(KeyOf(lines[k]), k,
                                               IndexOf(lines[k], KeyOf(lines[k])))
               /\ \A k \in Occurrences(lines) \ repeated :
                     \E i \in 1..Len(q.result.nodes) :
                         /\ q.result.nodes[i].line = k
                         /\ q.result.nodes[i].path = PathTo(lines, k)

\* C17, for props blocks that open no block: the same statement about keys
\* that only occur as leaf assignments
C17_LeafDuplicates ==
    (/\ q # Undefined
     /\ q.op = "parseStyleguidePropsTree"
     /\ \A k \in Occurrences(SplitLF(q.body)) : AssignsLeaf(SplitLF(q.body)[k]))
        => LET lines    == SplitLF(q.body)
               repeated == Repeated(lines)
               warnings == q.result.warnings
           IN  /\ Len(warnings) = Cardinality(repeated)
               /\ \A i \in 1..Len(warnings) :
                     LET k == CHOOSE l \in repeated : Cardinality({j \in repeated : j <= l}) = i
                     IN  warnings[i] = Warning(KeyOf(lines[k]), k,
                                               IndexOf(lines[k], KeyOf(lines[k])))

(***************************************************************************)
(* Properties of the duplicate-key warnings of an indexed file             *)
(***************************************************************************)

\* the offsets in the document of the occurrences the warnings of its blocks
\* j.. are about: a warning holds a line and a column of the block's body
RECURSIVE WarnedFrom(_, _)
WarnedFrom(src, j) ==
    LET protos == parsePrototypeBlocks(TextOf(src))
    IN  IF j > Len(protos) THEN <<>>
        ELSE LET body == Slice(TextOf(src), protos[j].bodyStart, protos[j].bodyEnd)
                 found == Doc(src).blocks[j].warnings
             IN  [i \in 1..Len(found) |->
                     protos[j].bodyStart + LineStarts(body)[found[i].line]
                         + found[i].column - 1]
                 \o WarnedFrom(src, j + 1)

WarnedOffsets(src) == WarnedFrom(src, 1)

\* the offset of the second 'a {' of the text
SecondOpening(text) ==
    IndexFrom(text, <<"a", " ", "{">>, IndexOf(text, <<"a", " ", "{">>) + 1) - 1

\* the sources in which the props block of prototype Foo:Bar opens key a twice,
\* each time around a leaf b
DuplicateBlockSources == {"dupblock", "dupline"}

\* C18: once a file is indexed from a source in which the props block of
\* Foo:Bar opens key a twice around a leaf b, the list of Foo:Bar holds two
\* entries of the file with propPath ['a','b'], both of source styleguide, and
\* the parser gave one warning, for key a, at the second 'a {'.
C18_DuplicateBlock ==
    \A c \in Calls :
        (/\ calls[c].pc = "done"
         /\ calls[c].result = "ok"
         /\ calls[c].src \in DuplicateBlockSources)
            => LET owned == SelectSeq(ListOf("Foo:Bar"),
                                      LAMBDA e : /\ e.uri = calls[c].uri
                                                 /\ e.propPath = <<"a", "b">>)
                   found == parsePropDefinitions(calls[c].src).warnings
               IN  /\ Len(owned) = 2
                   /\ \A i \in 1..Len(owned) : owned[i].source = "styleguide"
                   /\ Len(found) = 1
                   /\ WarnedKey(found[1].message) = "a"
                   /\ WarnedOffsets(calls[c].src)
                          = <<SecondOpening(TextOf(calls[c].src))>>

\* the position lies in the range
Covers(range, position) ==
    /\ \/ range[1].line < position.line
       \/ range[1].line = position.line /\ range[1].character <= position.character
    /\ \/ position.line < range[2].line
       \/ position.line = range[2].line /\ position.character < range[2].character

\* C19: once a file is indexed, it has one diagnostic per warning of the
\* parser; when some definition of the file ends with the warned key the range
\* of the diagnostic covers the occurrence the warning is about, and otherwise
\* it is the one-character range at the warning's own line and column.
C19_DiagnosticPlacement ==
    \A c \in Calls :
        (calls[c].pc = "done" /\ calls[c].result = "ok")
            => LET src    == calls[c].src
                   parsed == parsePropDefinitions(src)
                   found  == WI_getDiagnostics(diagnostics, calls[c].uri)
                   warned == WarnedOffsets(src)
               IN  /\ Len(found) = Len(parsed.warnings)
                   /\ \A i \in 1..Len(found) :
                         LET w == parsed.warnings[i]
                         IN  IF \E k \in 1..Len(parsed.props) :
                                    LastSegment(parsed.props[k].propPath)
                                        = WarnedKey(w.message)
                             THEN Covers(found[i].range, offsetToPosition(src, warned[i]))
                             ELSE found[i].range =
                                     <<[line |-> w.line - 1, character |-> w.column - 1],
                                       [line |-> w.line - 1, character |-> w.column]>>

(***************************************************************************)
(* Properties of the Prototype Index under re-indexing                     *)
(***************************************************************************)

\* the names of the list
NameSet(names) == {names[i] : i \in 1..Len(names)}

\* the names whose entry of the Prototype Index pr points into file uri
PointingInto(pr, uri) == {n \in DOMAIN pr : pr[n].uri = uri}

\* C21: when indexFusionFile(f, text, live) has returned, with the props
\* applied or aborted by the live-edit guard, the names recorded for f are
\* the prototype(...) occurrences of text, and the entries that point into f
\* are those of exactly these names.
C21_PrototypesUnconditional ==
    \A c \in Calls :
        (calls[c].pc = "done" /\ calls[c].result \in {"ok", "guard"})
            => /\ PX_getPrototypesFromDocument(filePrototypes, calls[c].uri)
                    = DeclNames(calls[c].src)
               /\ MapGet(filePrototypeMap, calls[c].uri, <<>>) = DeclNames(calls[c].src)
               /\ PointingInto(prototypes, calls[c].uri) = NameSet(DeclNames(calls[c].src))

\* a call aborted by the live-edit guard, before which a name that text does
\* not declare pointed into the file
C21_Witness ==
    \E c \in Calls :
        /\ calls[c].pc = "done"
        /\ calls[c].result = "guard"
        /\ PointingInto(calls[c].pre.prototypes, calls[c].uri)
              \ NameSet(DeclNames(calls[c].src)) # {}

(***************************************************************************)
(* Properties of the parsers on whole texts                                *)
(***************************************************************************)

\* the characters of t that are no white space
Inked(t) == SelectSeq(t, LAMBDA ch : ~IsSpace(ch))

\* t is the word prototype, '(', a name and ')', with white space at most
\* before and after the parenthesis and the name
DeclShape(t) ==
    LET word  == <<"p", "r", "o", "t", "o", "t", "y", "p", "e">>
        inner == SubSeq(t, Len(word) + 1, Len(t) - 1)
        named == {i \in 1..Len(inner) : IsNameChar(inner[i])}
    IN  /\ StartsAt(t, 1, word)
        /\ Len(t) > Len(word)
        /\ t[Len(t)] = ")"
        /\ Inked(inner) # <<>>
        /\ Inked(inner)[1] = "("
        /\ named # {}
        /\ \A i \in 1..Len(inner) :
              \/ IsSpace(inner[i])
              \/ i \in named
              \/ inner[i] = "(" /\ \A k \in named : i < k
        /\ \A i \in named : \A k \in named : \A m \in i..k : m \in named

\* the name between the parentheses of such a text
ShapeName(t) == Str(Tail(Inked(SubSeq(t, 10, Len(t) - 1))))

\* the offsets of the text at which a prototype(Name) stands
Occurrences_Decl(text) ==
    {i \in 0..(Len(text) - 1) :
        \E j \in (i + 1)..Len(text) : DeclShape(Slice(text, i, j))}

\* C23: parsePrototypes returns one declaration for every place of the text
\* at which a prototype(Name) stands, in the order of the text, parent
\* references included; the text between start and end of a declaration is
\* that prototype(Name), and Name is the name of the declaration.
C23_OneDeclarationPerOccurrence ==
    (q # Undefined /\ q.op = "parse")
        => LET at == Occurrences_Decl(q.text)
           IN  /\ Len(q.declarations) = Cardinality(at)
               /\ \A k \in 1..Len(q.declarations) :
                     LET d == q.declarations[k]
                     IN  /\ d.start \in at
                         /\ Cardinality({i \in at : i <= d.start}) = k
                         /\ DeclShape(Slice(q.text, d.start, d.end))
                         /\ ShapeName(Slice(q.text, d.start, d.end)) = d.name

\* a text in which prototype(N) only stands as the parent of prototype(M):
\* both are declared, and no block is N's
C23_Witness ==
    /\ q # Undefined
    /\ q.op = "parse"
    /\ Len(q.declarations) = 2
    /\ q.declarations[1].name = "M"
    /\ q.declarations[2].name = "N"
    /\ Len(q.blocks) = 1
    /\ q.blocks[1].name = "M"

\* the offset of the '{' of the block opener that stands at offset i of the
\* text, -1 when none stands there: a prototype(Name), then white space and
\* '{', or white space, '<' and anything up to the next '{'
OpenerBrace(text, i) ==
    LET ends  == {e \in (i + 1)..Len(text) : DeclShape(Slice(text, i, e))}
        e     == CHOOSE x \in ends : TRUE
        brace == IndexFrom(text, <<"{">>, e + 1) - 1
    IN  IF ends = {} \/ brace = -1 THEN -1
        ELSE IF \/ Inked(Slice(text, e, brace)) = <<>>
                \/ Inked(Slice(text, e, brace))[1] = "<"
             THEN brace
             ELSE -1

\* the openers the scan meets from offset from on, each sought behind the
\* '{' of the one before
RECURSIVE OpenersFrom(_, _)
OpenersFrom(text, from) ==
    LET at == {i \in from..(Len(text) - 1) : OpenerBrace(text, i) # -1}
        i  == CHOOSE x \in at : \A y \in at : x <= y
    IN  IF at = {} THEN <<>>
        ELSE <<[at |-> i, brace |-> OpenerBrace(text, i)]>>
                 \o OpenersFrom(text, OpenerBrace(text, i) + 1)

\* a counter started at the '{' of offset brace, one up at '{' and one down
\* at '}': the offset from i on at which it is back to 0, -1 when it never is
RECURSIVE ClosingFrom(_, _, _)
ClosingFrom(text, i, depth) ==
    IF i >= Len(text) THEN -1
    ELSE IF text[i + 1] = "{" THEN ClosingFrom(text, i + 1, depth + 1)
    ELSE IF text[i + 1] = "}"
         THEN IF depth = 1 THEN i ELSE ClosingFrom(text, i + 1, depth - 1)
    ELSE ClosingFrom(text, i + 1, depth)

Closing(text, brace) == ClosingFrom(text, brace + 1, 1)

\* C24: parsePrototypeBlocks returns, in the order of the text, one block for
\* every opener the scan meets whose '{' is closed: bodyStart is the offset
\* behind that '{', bodyEnd the offset of the first '}' at which a counter
\* started at that '{' is back to 0; an opener whose '{' is never closed gives
\* no block, and the openers behind its '{' give theirs.
C24_BlockExtractor ==
    (q # Undefined /\ q.op = "parse")
        => LET openers == OpenersFrom(q.text, 0)
               closed  == {k \in 1..Len(openers) : Closing(q.text, openers[k].brace) # -1}
           IN  /\ Len(q.blocks) = Cardinality(closed)
               /\ \A n \in 1..Len(q.blocks) :
                     LET k == CHOOSE x \in closed : Cardinality({y \in closed : y <= x}) = n
                     IN  /\ q.blocks[n].bodyStart = openers[k].brace + 1
                         /\ q.text[q.blocks[n].bodyStart] = "{"
                         /\ q.blocks[n].bodyEnd = Closing(q.text, openers[k].brace)
                         /\ q.text[q.blocks[n].bodyEnd + 1] = "}"

\* a text with two openers, the first never closed: the one block is that of
\* the second opener, which stands behind the '{' of the first
C24_Witness ==
    /\ q # Undefined
    /\ q.op = "parse"
    /\ Len(OpenersFrom(q.text, 0)) = 2
    /\ Closing(q.text, OpenersFrom(q.text, 0)[1].brace) = -1
    /\ Len(q.blocks) = 1
    /\ q.blocks[1].bodyStart = OpenersFrom(q.text, 0)[2].brace + 1

\* a block in whose body a brace is opened and closed: bodyEnd is the second
\* '}' behind bodyStart
C24_NestedBraces ==
    /\ q # Undefined
    /\ q.op = "parse"
    /\ Len(q.blocks) = 1
    /\ IndexFrom(q.text, <<"}">>, q.blocks[1].bodyStart + 1) - 1 < q.blocks[1].bodyEnd

C29_RemoveOnlyOwned ==
    \A c \in Calls :
        calls[c].pc = "open1"
            => \A n \in Names :
                  (/\ PX_get(calls[c].pre.prototypes, n) # Undefined
                   /\ PX_get(calls[c].pre.prototypes, n).uri # calls[c].uri)
                     => PX_get(prototypes, n) = PX_get(calls[c].pre.prototypes, n)

\* C30: after calls of indexFusionFile that ran one after the other and all
\* returned true, get(n) is defined exactly when the text some file was last
\* indexed with declares prototype(n), and then points into such a file.
C30_DefinedIffDeclared ==
    (\A c \in Calls : calls[c].pc \in {"idle", "done"})
        => \A n \in Names :
              /\ (PX_get(prototypes, n) # Undefined) <=> (Holders(n) # {})
              /\ PX_get(prototypes, n) # Undefined
                    => PX_get(prototypes, n).uri \in Holders(n)

\* the paths of the definitions held in a Prop Index
PathsOf(bp) ==
    UNION {{bp[P][i].propPath : i \in 1..Len(bp[P])} : P \in DOMAIN bp}

\* every lookup answers on the indexes pr and bp what it answered on before
SameLookups(before, pr, bp) ==
    /\ \A n \in Names : PX_get(pr, n) = PX_get(before.prototypes, n)
    /\ \A P \in Names : \A p \in PathsOf(bp) \cup PathsOf(before.byPrototype) :
          PI_resolve(bp, P, p) = PI_resolve(before.byPrototype, P, p)

InFlight(c) == calls[c].pc \in {"open1", "open2"}

\* C25: the handlers never start reindexDocument for a file while an earlier
\* call for that file has not returned: no two calls for one file are in
\* flight together.
C25_Serialized ==
    \A c \in Slots : \A d \in Slots \ {c} :
        (InFlight(c) /\ InFlight(d)) => calls[c].uri # calls[d].uri

\* the definitions the Prop Index holds for file uri that equal definition d
Held(uri, d) ==
    LET props == MapGet(byPrototype, d.prototypeName, <<>>)
    IN  Cardinality({i \in 1..Len(props) : /\ props[i].uri = uri
                                           /\ props[i].propPath = d.propPath
                                           /\ props[i].start = d.start
                                           /\ props[i].source = d.source})

\* C26: when two calls of indexFusionFile for one file with one text have both
\* returned true, however they were interleaved, the Prop Index holds each
\* definition of that text once for the file.
C26_OnceEach ==
    \A c \in Slots : \A d \in Slots \ {c} :
        (/\ calls[c].pc = "done" /\ calls[c].result = "ok"
         /\ calls[d].pc = "done" /\ calls[d].result = "ok"
         /\ calls[c].uri = calls[d].uri
         /\ calls[c].src = calls[d].src)
            => LET propDefinitions == parsePropDefinitions(calls[c].src).props
               IN  \A i \in 1..Len(propDefinitions) :
                      Held(calls[c].uri, propDefinitions[i]) = 1

\* C27: after a change of a document, a reindexDocument of that document is
\* started with the text of that change or of a later one, whatever happens
\* to the other documents.
C27_DebounceLiveness ==
    \A doc \in OpenDocuments : \A v \in 2..MaxVersion :
        (textDocuments[doc].version = v) ~> (started[doc] >= v)

(***************************************************************************)
(* Properties of the transaction on the props of a file                    *)
(***************************************************************************)

\* C31: from its beginning to its return, however it returns, a call of
\* indexFusionFile for a file leaves to every other file the entries it owns
\* in the Prop Index, in their order within each prototype's list, and its
\* diagnostics.
C31_FileIsolation ==
    \A c \in Calls :
        calls[c].pc # "idle"
            => \A g \in Files \ {calls[c].uri} :
                  /\ OwnedProps(byPrototype, g) = OwnedProps(calls[c].pre.byPrototype, g)
                  /\ Contents.diagnostics[g] = calls[c].pre.diagnostics[g]

\* a call that returned true and inserted definitions under a prototype of
\* which another file owns definitions too, that file having a diagnostic
C31_Witness ==
    \E c \in Calls :
        /\ calls[c].pc = "done"
        /\ calls[c].result = "ok"
        /\ \E g \in Files \ {calls[c].uri} : \E n \in Names :
              /\ OwnedIn(MapGet(byPrototype, n, <<>>), g) # <<>>
              /\ OwnedIn(MapGet(byPrototype, n, <<>>), calls[c].uri) # <<>>
              /\ Contents.diagnostics[g] # <<>>

\* the Prop Index after the entries of file uri were replaced by the
\* definitions of the text src
Replaced(bp, uri, src) ==
    LET propDefinitions == parsePropDefinitions(src).props
    IN  InsertGroups(PI_removeByUri(bp, uri), propDefinitions,
                     GroupNames(propDefinitions, 1, <<>>), 1, uri)

\* the call of slot c has returned, its documents having been opened; its
\* text yields n prop definitions or more
Returned(c, n) ==
    /\ calls[c].pc = "done"
    /\ calls[c].src # None
    /\ calls[c].result # "ioerror"
    /\ Len(parsePropDefinitions(calls[c].src).props) >= n

\* C32: a call without the live flag whose text yields no prop definition
\* returns true, leaves the file no entry in the Prop Index and gives it the
\* diagnostics of the text, which are none; and a call whose text yields a
\* prop definition returns true and replaces the file's entries and
\* diagnostics by those of the text, with the live flag as without it.
C32_NoTolerance ==
    \A c \in Calls :
        /\ (Returned(c, 0) /\ ~Returned(c, 1) /\ ~calls[c].live)
              => /\ calls[c].result = "ok"
                 /\ \A n \in Names :
                       OwnedIn(MapGet(byPrototype, n, <<>>), calls[c].uri) = <<>>
                 /\ byPrototype = PI_removeByUri(calls[c].pre.byPrototype, calls[c].uri)
                 /\ Contents.diagnostics[calls[c].uri] = <<>>
                 /\ FileDiagnostics(calls[c].src) = <<>>
        /\ Returned(c, 1)
              => /\ calls[c].result = "ok"
                 /\ byPrototype
                       = Replaced(calls[c].pre.byPrototype, calls[c].uri, calls[c].src)
                 /\ Contents.diagnostics[calls[c].uri] = FileDiagnostics(calls[c].src)

\* a call without the live flag whose text yields no prop definition has
\* returned for a file that owned entries and had a diagnostic
C32_Witness ==
    \E c \in Calls :
        /\ Returned(c, 0)
        /\ ~Returned(c, 1)
        /\ ~calls[c].live
        /\ HasProps(calls[c].pre.byPrototype, calls[c].uri)
        /\ calls[c].pre.diagnostics[calls[c].uri] # <<>>

\* a call with the live flag whose text yields prop definitions has returned
\* for a file that owned other entries
C32_LiveWithProps ==
    \E c \in Calls :
        /\ Returned(c, 1)
        /\ calls[c].live
        /\ HasProps(calls[c].pre.byPrototype, calls[c].uri)
        /\ byPrototype # calls[c].pre.byPrototype

(***************************************************************************)
(* Properties of the offsets of the definitions                            *)
(***************************************************************************)

\* C37: every definition the Default Prop Scanner returns for a body spans
\* its key: the text of the body from start to end is the key, the segments
\* of the path joined by '.'.
C37_DefaultOffsets ==
    (q # Undefined /\ q.op = "parseDefaultProps")
        => \A i \in 1..Len(q.result) :
              /\ 0 <= q.result[i].start
              /\ q.result[i].end <= Len(q.body)
              /\ Str(Slice(q.body, q.result[i].start, q.result[i].end))
                    = Join(q.result[i].propPath)

(***************************************************************************)
(* Properties of the Styleguide Tree Parser and the Flattener              *)
(***************************************************************************)

\* path p is path r with further keys behind it
Extends(p, r) == Len(p) > Len(r) /\ SubSeq(p, 1, Len(r)) = r

\* C36: the Flattener returns one definition for every node of the tree but
\* the root and none for the root, each of source styleguide with the keys
\* from the root to the node as its propPath, and the definition of a node
\* before those of its descendants.
C36_Flattener ==
    (q # Undefined /\ q.op = "flatten")
        => /\ Len(q.result) = Len(q.tree.nodes)
           /\ \A i \in 1..Len(q.tree.nodes) :
                 Cardinality({j \in 1..Len(q.result) :
                                q.result[j].propPath = q.tree.nodes[i].path}) = 1
           /\ \A j \in 1..Len(q.result) :
                 /\ q.result[j].source = "styleguide"
                 /\ Len(q.result[j].propPath) >= 1
                 /\ \A k \in 1..Len(q.result) :
                       Extends(q.result[k].propPath, q.result[j].propPath) => j < k

\* a tree with a node three keys below the root and a sibling of its parent
C36_Witness ==
    /\ q # Undefined
    /\ q.op = "flatten"
    /\ Len(q.result) >= 4
    /\ \E j \in 1..Len(q.result) : Len(q.result[j].propPath) = 3
    /\ Cardinality({j \in 1..Len(q.result) : Len(q.result[j].propPath) = 2}) >= 2

\* the line feeds of the text before offset n
LineFeedsBefore(text, n) == Cardinality({i \in 1..n : text[i] = "\n"})

\* definition d spans the key of the node in the body that begins at offset
\* bodyOffset of the document: the text from start to end is the key, and it
\* stands on the line of the node
SpansKey(body, bodyOffset, node, d) ==
    /\ bodyOffset <= d.start
    /\ d.end - bodyOffset <= Len(body)
    /\ Slice(body, d.start - bodyOffset, d.end - bodyOffset) = node.key
    /\ LineFeedsBefore(body, d.start - bodyOffset) = node.line - 1

\* C38: every styleguide definition spans the key of its node in the
\* document, for bodies with LF and with CRLF line endings.
C38_StyleguideOffsets ==
    (q # Undefined /\ q.op = "flatten")
        => \A j \in 1..Len(q.result) : \A i \in 1..Len(q.tree.nodes) :
              q.tree.nodes[i].path = q.result[j].propPath
                 => SpansKey(q.body, TreeBodyOffset, q.tree.nodes[i], q.result[j])

\* the same for the bodies with LF line endings only
C38_StyleguideOffsetsLF ==
    (q # Undefined /\ q.op = "flatten" /\ IndexOf(q.body, <<"\r">>) = 0)
        => \A j \in 1..Len(q.result) : \A i \in 1..Len(q.tree.nodes) :
              q.tree.nodes[i].path = q.result[j].propPath
                 => SpansKey(q.body, TreeBodyOffset, q.tree.nodes[i], q.result[j])

\* the state of parseStyleguidePropsTree after the first k lines of the body
StateAfter(body, k) == TreeLoop(TreeStart, SubSeq(SplitLF(body), 1, k), 1)

\* C34: once the props node was popped and the stack is empty, no later line
\* of the body adds a node or a warning.
C34_NothingAfterProps ==
    (q # Undefined /\ q.op = "flatten")
        => \A k \in 1..Len(SplitLF(q.body)) :
              (StateAfter(q.body, k).inProps /\ StateAfter(q.body, k).stack = <<>>)
                 => /\ q.tree.nodes = StateAfter(q.body, k).nodes
                    /\ q.tree.warnings = StateAfter(q.body, k).warnings

\* the props block is closed by the third line of the body, and behind it
\* come a line that opens a block and a line that assigns a key
C34_Witness ==
    /\ q # Undefined
    /\ q.op = "flatten"
    /\ Len(SplitLF(q.body)) >= 5
    /\ StateAfter(q.body, 3).inProps
    /\ StateAfter(q.body, 3).stack = <<>>
    /\ \E k \in 4..Len(SplitLF(q.body)) : OpenMatch(SplitLF(q.body)[k]).ok
    /\ \E k \in 4..Len(SplitLF(q.body)) : LeafMatch(SplitLF(q.body)[k]).ok
    /\ q.tree.nodes = <<>>

\* the parser is inside the props block when it reads line k of the body
InsideProps(body, k) ==
    /\ StateAfter(body, k - 1).inProps
    /\ StateAfter(body, k - 1).current # <<>>

\* line k of the body pops the stack
Pops(body, k) ==
    Len(StateAfter(body, k).stack) = Len(StateAfter(body, k - 1).stack) - 1

\* C35: whether a line inside the props block pops the stack is decided by
\* that line alone: it does exactly when it begins with a closing brace and
\* the ${...} depth counted over the line itself, from 0, is 0.
C35_EelDepthPerLine ==
    (q # Undefined /\ q.op = "flatten")
        => \A k \in 1..Len(SplitLF(q.body)) :
              InsideProps(q.body, k)
                 => (Pops(q.body, k)
                        <=> /\ IsCloseLine(SplitLF(q.body)[k])
                            /\ EelScan(SplitLF(q.body)[k], 1, 0) = 0)

\* the lines of the body, among the first k, that opened a block which no
\* later line among them has closed: the props line and the lines with a
\* block-opening key, innermost last; <<>> before the props line and once the
\* props block is closed
RECURSIVE OpenLines(_, _)
OpenLines(body, k) ==
    IF k = 0 THEN <<>>
    ELSE LET line == SplitLF(body)[k]
             open == OpenLines(body, k - 1)
         IN  IF ~StateAfter(body, k - 1).inProps
             THEN IF StateAfter(body, k).inProps THEN <<k>> ELSE <<>>
             ELSE IF open = <<>> THEN <<>>
             ELSE IF IsCloseLine(line) THEN SubSeq(open, 1, Len(open) - 1)
             ELSE IF ~IsDirectiveLine(line) /\ OpenMatch(line).ok THEN Append(open, k)
             ELSE open

\* the line of the node under which the node of that path was recorded
ParentLine(tree, path) ==
    IF Len(path) = 1 THEN tree.position.line
    ELSE LET at == {i \in 1..Len(tree.nodes) :
                       tree.nodes[i].path = SubSeq(path, 1, Len(path) - 1)}
         IN  tree.nodes[CHOOSE i \in at : TRUE].line

\* line k of the body holds a key: it opens a block or assigns a leaf
KeyLine(body, k) ==
    /\ ~IsCloseLine(SplitLF(body)[k])
    /\ ~IsDirectiveLine(SplitLF(body)[k])
    /\ OpenMatch(SplitLF(body)[k]).ok \/ LeafMatch(SplitLF(body)[k]).ok

\* C33: in a body without ${, every node is recorded under the node of the
\* innermost line that opened a block not yet closed when the node's line is
\* read (so a key inside a block whose opening line was suppressed as a
\* duplicate is not recorded, there being no node for that line), and every
\* key line read while such a block with a node is innermost gives a node or
\* a warning.
C33_StackBalance ==
    (q # Undefined /\ q.op = "flatten" /\ IndexOf(q.body, <<"$">>) = 0)
        => /\ \A i \in 1..Len(q.tree.nodes) :
                 LET open == OpenLines(q.body, q.tree.nodes[i].line - 1)
                 IN  /\ open # <<>>
                     /\ ParentLine(q.tree, q.tree.nodes[i].path) = open[Len(open)]
           /\ \A k \in 1..Len(SplitLF(q.body)) :
                 LET open == OpenLines(q.body, k - 1)
                 IN  (/\ open # <<>>
                      /\ KeyLine(q.body, k)
                      /\ \A w \in 1..Len(q.tree.warnings) :
                            q.tree.warnings[w].line # open[Len(open)])
                        => \/ \E i \in 1..Len(q.tree.nodes) : q.tree.nodes[i].line = k
                           \/ \E w \in 1..Len(q.tree.warnings) : q.tree.warnings[w].line = k

====
